---- MODULE Spec2Model ----
(***************************************************************************)
(* A model of the Beeflang interpreter: the tree-walking evaluator          *)
(* (internal/evaluator), the environment chain it runs against and the      *)
(* entry point main() that evaluates a program and calls ChurchOfBeef.      *)
(*                                                                          *)
(* The evaluator is a set of mutually recursive Go functions.  The model    *)
(* keeps the Go call stack of the evaluator explicitly: a frame is one call *)
(* of Eval, on a node in an environment, with the position reached in the   *)
(* handler of that node kind and the handler's local variables.  Each       *)
(* handler is an action of the same name; a step of it runs the handler     *)
(* from where it is up to its next call of Eval or to its return.           *)
(* trace records every call of Eval (enter) and every return from it        *)
(* (exit); it is the history the properties below are stated on.            *)
(***************************************************************************)
EXTENDS Integers, Sequences, FiniteSets, TLC

VARIABLES
    scenario,    \* which input this run was given: [name, a, b, c]
    pc,          \* position of main(): "parse", "eval", "entry", "exit"
    program,     \* the *ast.Program ParseProgram returned
    errors,      \* p.Errors(): the parser's messages
    exitStatus,  \* the process's exit status, -1 while it runs
    stack,       \* the evaluator's call stack, innermost call last
    ret,         \* what the call of Eval that returned last returned
    envs,        \* heap of Environment objects, an environment is its index
    nobj,        \* number of Function / Module / Builtin objects allocated
    stdout,      \* what was written to standard output, in order
    stdin,       \* the lines of standard input not yet read
    trace,       \* history: the Eval calls and returns so far
    fuel,        \* Eval calls left before the run is cut off (MaxFuel)
    abort        \* "" while running, "panic" after a Go panic, "fuel" when cut off

vars == <<scenario, pc, program, errors, exitStatus, stack, ret, envs, nobj,
          stdout, stdin, trace, fuel, abort>>

\* main()'s own variables, which the evaluator leaves alone
mainVars == <<scenario, pc, program, errors, exitStatus>>

-----------------------------------------------------------------------------
(* Bounds *)

\* Eval calls one run may make; a run that needs more is cut off (abort = "fuel").
MaxFuel == 200

\* Most arguments of a call in the "args" inputs.
MaxArgs == 3

\* Deepest nesting of if / else / while around a serve in the "return" inputs.
MaxNest == 3

\* The loop turn at which the "loopreturn" inputs serve goes up to this.
MaxIter == 3

\* Most calls of the counting function in the "counter" inputs.
MaxCalls == 3

\* Largest argument of the recursive functions in the "factorial" and "sibling" inputs.
MaxFact == 5

-----------------------------------------------------------------------------
(* Runtime objects (internal/object).  t is what Type() returns. *)

\* Go's nil interface value: what Eval returns for an empty block.
nil == [t |-> "nil"]

\* The package's three singletons.  id stands for the object's address: the
\* objects allocated while the program runs are numbered from 1.
NULL == [t |-> "NULL", id |-> 0]
TRUE_ == [t |-> "BOOLEAN", Value |-> TRUE, id |-> 0 - 1]
FALSE_ == [t |-> "BOOLEAN", Value |-> FALSE, id |-> 0 - 2]

Integer(v) == [t |-> "INTEGER", Value |-> v]
String(s) == [t |-> "STRING", Value |-> s]
ReturnValue(v) == [t |-> "RETURN_VALUE", Value |-> v]
Function(id, params, body, env) ==
    [t |-> "FUNCTION", id |-> id, Parameters |-> params, Body |-> body, Env |-> env]
Builtin(id, fn) == [t |-> "BUILTIN", id |-> id, Fn |-> fn]
Module(id, name, members) ==
    [t |-> "MODULE", id |-> id, Name |-> name, Members |-> members]

Type(obj) == obj.t

\* Go's == on two object.Object interface values: pointer identity.  Integer and
\* String objects are allocated per evaluation, so two of them are never the
\* same pointer here (the evaluator compares those by value before it gets to
\* pointers).
SameObject(a, b) ==
    /\ Type(a) = Type(b)
    /\ CASE Type(a) = "nil" -> TRUE
         [] Type(a) \in {"BOOLEAN", "NULL", "FUNCTION", "BUILTIN", "MODULE"} -> a.id = b.id
         [] OTHER -> FALSE

-----------------------------------------------------------------------------
(* Environment (internal/object): a store and an optional outer environment. *)
(* outer = 0 is Go's nil.                                                     *)

EmptyStore == [name \in {} |-> nil]

\* object.NewEnvironment() / object.NewEnclosedEnvironment(outer): the heap with
\* the new environment, whose index is the heap's new length.
NewEnvironment(heap) == Append(heap, [store |-> EmptyStore, outer |-> 0])

NewEnclosedEnvironment(heap, outer) == Append(heap, [store |-> EmptyStore, outer |-> outer])

\* env.Get(name): walk outward until found or exhausted.
RECURSIVE Get(_, _, _)
Get(heap, env, name) ==
    IF name \in DOMAIN heap[env].store
    THEN [val |-> heap[env].store[name], ok |-> TRUE]
    ELSE IF heap[env].outer # 0
         THEN Get(heap, heap[env].outer, name)
         ELSE [val |-> nil, ok |-> FALSE]

\* The innermost environment of env's chain that binds name, 0 if none does.
RECURSIVE Owner(_, _, _)
Owner(heap, env, name) ==
    IF name \in DOMAIN heap[env].store THEN env
    ELSE IF heap[env].outer # 0 THEN Owner(heap, heap[env].outer, name)
    ELSE 0

\* env.Set(name, val): rebind in the innermost scope that has the name, or
\* create the binding in env itself.  The heap after it.
Set(heap, env, name, val) ==
    LET o == Owner(heap, env, name)
        target == IF o = 0 THEN env ELSE o
    IN  [heap EXCEPT ![target].store = (name :> val) @@ @]

-----------------------------------------------------------------------------
(* Go's int64, the type of object.Integer.Value and ast.IntegerLiteral.Value. *)
(* A value is its eight two's complement bytes, least significant first, so   *)
(* that the arithmetic wraps around at 64 bits as the machine's does.         *)

\* Go's integer division truncates toward zero and % takes the dividend's sign.
Abs(x) == IF x < 0 THEN 0 - x ELSE x
GoQuo(a, b) == IF (a < 0) = (b < 0) THEN Abs(a) \div Abs(b) ELSE 0 - (Abs(a) \div Abs(b))
GoRem(a, b) == a - b * GoQuo(a, b)

\* The k low bytes of the natural number n.
RECURSIVE Bytes(_, _)
Bytes(n, k) == IF k = 0 THEN <<>> ELSE <<n % 256>> \o Bytes(n \div 256, k - 1)

\* a + b + carry, byte by byte; the carry out of the last byte is dropped.
RECURSIVE AddBytes(_, _, _)
AddBytes(a, b, carry) ==
    IF a = <<>> THEN <<>>
    ELSE LET sum == Head(a) + Head(b) + carry
         IN  <<sum % 256>> \o AddBytes(Tail(a), Tail(b), sum \div 256)

RECURSIVE Not64(_)
Not64(a) == IF a = <<>> THEN <<>> ELSE <<255 - Head(a)>> \o Not64(Tail(a))

Zero64 == Bytes(0, 8)
Add64(a, b) == AddBytes(a, b, 0)
Sub64(a, b) == AddBytes(a, Not64(b), 1)
Neg64(a) == AddBytes(Not64(a), Zero64, 1)

\* The int64 of an integer of the model (of magnitude below 2^31).
Int64(n) == IF n >= 0 THEN Bytes(n, 8) ELSE Neg64(Bytes(0 - n, 8))

\* Column k of the long multiplication: the sum of a[i] * b[k + 1 - i].
RECURSIVE Column(_, _, _, _)
Column(a, b, k, i) == IF i > k THEN 0 ELSE a[i] * b[k + 1 - i] + Column(a, b, k, i + 1)

RECURSIVE MulBytes(_, _, _, _)
MulBytes(a, b, k, carry) ==
    IF k > Len(a) THEN <<>>
    ELSE LET sum == Column(a, b, k, 1) + carry
         IN  <<sum % 256>> \o MulBytes(a, b, k + 1, sum \div 256)

\* The low 64 bits of the product, which are the same signed and unsigned.
Mul64(a, b) == MulBytes(a, b, 1, 0)

IsNegative(a) == a[Len(a)] >= 128

\* a < b as unsigned numbers: decided by the most significant byte that differs.
RECURSIVE BelowFrom(_, _, _)
BelowFrom(a, b, i) ==
    IF i = 0 THEN FALSE
    ELSE IF a[i] # b[i] THEN a[i] < b[i]
    ELSE BelowFrom(a, b, i - 1)

Below(a, b) == BelowFrom(a, b, Len(a))

Less64(a, b) == IF IsNegative(a) # IsNegative(b) THEN IsNegative(a) ELSE Below(a, b)

\* The magnitude of a as an unsigned number (2^63 for the most negative value).
Magnitude(a) == IF IsNegative(a) THEN Neg64(a) ELSE a

\* Restoring division of an unsigned dividend by d # 0.  The register starts as
\* the dividend below a zero remainder; each of the steps shifts it left by one
\* bit and, when the remainder half has reached d, takes d off it and sets the
\* bit shifted in.  It ends as the quotient below the remainder.
RECURSIVE Divide(_, _, _)
Divide(register, d, steps) ==
    IF steps = 0 THEN register
    ELSE LET shifted == AddBytes(register, register, 0)
             quo == SubSeq(shifted, 1, Len(d))
             rem == SubSeq(shifted, Len(d) + 1, Len(shifted))
         IN  IF Below(rem, d)
             THEN Divide(shifted, d, steps - 1)
             ELSE Divide(AddBytes(quo, Zero64, 1) \o Sub64(rem, d), d, steps - 1)

\* Go's / and % on int64, for b # 0: the quotient truncated toward zero (the
\* most negative value divided by -1 is itself) and the remainder with the
\* dividend's sign.
Quo64(a, b) ==
    LET q == SubSeq(Divide(Magnitude(a) \o Zero64, Magnitude(b), 8 * Len(a)), 1, Len(a))
    IN  IF IsNegative(a) # IsNegative(b) THEN Neg64(q) ELSE q

Rem64(a, b) ==
    LET r == SubSeq(Divide(Magnitude(a) \o Zero64, Magnitude(b), 8 * Len(a)),
                    Len(a) + 1, 2 * Len(a))
    IN  IF IsNegative(a) THEN Neg64(r) ELSE r

-----------------------------------------------------------------------------
(* Error helpers *)

newError(tok, message) ==
    [t |-> "ERROR", Message |-> message, Line |-> tok.Line, Column |-> tok.Column]

isError(obj) == IF obj # nil THEN Type(obj) = "ERROR" ELSE FALSE

-----------------------------------------------------------------------------
(* AST nodes (internal/ast), with the fields the evaluator reads.  Every     *)
(* node keeps its token; of the token only Line and Column are read.         *)

Tok(line, column) == [Line |-> line, Column |-> column]

Program(statements) == [kind |-> "Program", Token |-> Tok(0, 0), Statements |-> statements]
IntegerLiteral(tok, v) == [kind |-> "IntegerLiteral", Token |-> tok, Value |-> v]
BooleanLiteral(tok, v) == [kind |-> "BooleanLiteral", Token |-> tok, Value |-> v]
StringLiteral(tok, v) == [kind |-> "StringLiteral", Token |-> tok, Value |-> v]
Identifier(tok, name) == [kind |-> "Identifier", Token |-> tok, Value |-> name]
PrefixExpression(tok, operator, right) ==
    [kind |-> "PrefixExpression", Token |-> tok, Operator |-> operator, Right |-> right]
InfixExpression(tok, operator, left, right) ==
    [kind |-> "InfixExpression", Token |-> tok, Operator |-> operator,
     Left |-> left, Right |-> right]
VariableDeclaration(tok, name, value) ==
    [kind |-> "VariableDeclaration", Token |-> tok, Name |-> name, Value |-> value]
AssignmentStatement(tok, name, value) ==
    [kind |-> "AssignmentStatement", Token |-> tok, Name |-> name, Value |-> value]
BlockStatement(tok, statements) ==
    [kind |-> "BlockStatement", Token |-> tok, Statements |-> statements]
\* IfStatement.Alternative is a Go pointer: NoAlternative is the nil pointer.
NoAlternative == [kind |-> "none"]
IfStatement(tok, condition, consequence, alternative) ==
    [kind |-> "IfStatement", Token |-> tok, Condition |-> condition,
     Consequence |-> consequence, Alternative |-> alternative]
WhileLoop(tok, condition, body) ==
    [kind |-> "WhileLoop", Token |-> tok, Condition |-> condition, Body |-> body]
FunctionDeclaration(tok, name, parameters, body) ==
    [kind |-> "FunctionDeclaration", Token |-> tok, Name |-> name,
     Parameters |-> parameters, Body |-> body]
ReturnStatement(tok, value) ==
    [kind |-> "ReturnStatement", Token |-> tok, ReturnValue |-> value]
FunctionCall(tok, function, arguments) ==
    [kind |-> "FunctionCall", Token |-> tok, Function |-> function, Arguments |-> arguments]
WrangleStatement(tok, moduleName) ==
    [kind |-> "WrangleStatement", Token |-> tok, ModuleName |-> moduleName]
MemberAccessExpression(tok, object, member) ==
    [kind |-> "MemberAccessExpression", Token |-> tok, Object |-> object, Member |-> member]
ExpressionStatement(tok, expression) ==
    [kind |-> "ExpressionStatement", Token |-> tok, Expression |-> expression]

-----------------------------------------------------------------------------
(* The evaluator's pure helpers: they take objects and return an object. *)

nativeBoolToBooleanObject(input) == IF input THEN TRUE_ ELSE FALSE_

\* A ! for which the Integer 0 and the empty String are falsy too.
evalBangOperatorZeroIsFalsy(right) ==
    CASE SameObject(right, TRUE_) -> FALSE_
      [] SameObject(right, FALSE_) -> TRUE_
      [] SameObject(right, NULL) -> TRUE_
      [] Type(right) = "INTEGER" -> nativeBoolToBooleanObject(right.Value = Zero64)
      [] Type(right) = "STRING" -> nativeBoolToBooleanObject(right.Value = "")
      [] OTHER -> FALSE_

evalBangOperator(right) ==
    CASE SameObject(right, TRUE_) -> FALSE_
      [] SameObject(right, FALSE_) -> TRUE_
      [] SameObject(right, NULL) -> TRUE_
      [] OTHER -> FALSE_

evalMinusPrefixOperator(tok, right) ==
    IF Type(right) # "INTEGER"
    THEN newError(tok, "unknown operator: -" \o Type(right))
    ELSE Integer(Neg64(right.Value))

evalPrefixExpression(tok, operator, right) ==
    CASE operator = "!" -> evalBangOperator(right)
      [] operator = "-" -> evalMinusPrefixOperator(tok, right)
      [] OTHER -> newError(tok, "unknown operator: " \o operator \o Type(right))

\* What a helper yields where the Go code panics (integer divide by zero); Eval
\* turns it into the abort of the run.
runtimePanic == [t |-> "panic"]

\* Integer operators whose division rounds toward minus infinity.
evalIntegerInfixExpressionFloored(tok, operator, left, right) ==
    LET leftVal == left.Value
        rightVal == right.Value
        inexact == Rem64(leftVal, rightVal) # Zero64
                   /\ IsNegative(leftVal) # IsNegative(rightVal)
    IN  CASE operator = "+" -> Integer(Add64(leftVal, rightVal))
          [] operator = "-" -> Integer(Sub64(leftVal, rightVal))
          [] operator = "*" -> Integer(Mul64(leftVal, rightVal))
          [] operator = "/" ->
                IF rightVal = Zero64 THEN runtimePanic
                ELSE IF inexact THEN Integer(Sub64(Quo64(leftVal, rightVal), Int64(1)))
                ELSE Integer(Quo64(leftVal, rightVal))
          [] operator = "%" ->
                IF rightVal = Zero64 THEN runtimePanic
                ELSE Integer(Rem64(leftVal, rightVal))
          [] operator = "<" -> nativeBoolToBooleanObject(Less64(leftVal, rightVal))
          [] operator = ">" -> nativeBoolToBooleanObject(Less64(rightVal, leftVal))
          [] operator = "==" -> nativeBoolToBooleanObject(leftVal = rightVal)
          [] operator = "!=" -> nativeBoolToBooleanObject(leftVal # rightVal)
          [] operator = "<=" -> nativeBoolToBooleanObject(~Less64(rightVal, leftVal))
          [] operator = ">=" -> nativeBoolToBooleanObject(~Less64(leftVal, rightVal))
          [] OTHER -> newError(tok, "unknown operator: " \o Type(left) \o " "
                                    \o operator \o " " \o Type(right))

evalIntegerInfixExpression(tok, operator, left, right) ==
    LET leftVal == left.Value
        rightVal == right.Value
    IN  CASE operator = "+" -> Integer(Add64(leftVal, rightVal))
          [] operator = "-" -> Integer(Sub64(leftVal, rightVal))
          [] operator = "*" -> Integer(Mul64(leftVal, rightVal))
          [] operator = "/" ->
                IF rightVal = Zero64 THEN runtimePanic
                ELSE Integer(Quo64(leftVal, rightVal))
          [] operator = "%" ->
                IF rightVal = Zero64 THEN runtimePanic
                ELSE Integer(Rem64(leftVal, rightVal))
          [] operator = "<" -> nativeBoolToBooleanObject(Less64(leftVal, rightVal))
          [] operator = ">" -> nativeBoolToBooleanObject(Less64(rightVal, leftVal))
          [] operator = "==" -> nativeBoolToBooleanObject(leftVal = rightVal)
          [] operator = "!=" -> nativeBoolToBooleanObject(leftVal # rightVal)
          [] operator = "<=" -> nativeBoolToBooleanObject(~Less64(rightVal, leftVal))
          [] operator = ">=" -> nativeBoolToBooleanObject(~Less64(leftVal, rightVal))
          [] OTHER -> newError(tok, "unknown operator: " \o Type(left) \o " "
                                    \o operator \o " " \o Type(right))

evalStringInfixExpression(tok, operator, left, right) ==
    LET leftVal == left.Value
        rightVal == right.Value
    IN  CASE operator = "+" -> String(leftVal \o rightVal)
          [] operator = "==" -> nativeBoolToBooleanObject(leftVal = rightVal)
          [] operator = "!=" -> nativeBoolToBooleanObject(leftVal # rightVal)
          [] OTHER -> newError(tok, "unknown operator: " \o Type(left) \o " "
                                    \o operator \o " " \o Type(right))

\* An infix dispatch that checks the operands' types before it looks at the
\* operator.
evalInfixExpressionTypesFirst(tok, operator, left, right) ==
    CASE Type(left) = "INTEGER" /\ Type(right) = "INTEGER" ->
            evalIntegerInfixExpression(tok, operator, left, right)
      [] Type(left) = "STRING" /\ Type(right) = "STRING" ->
            evalStringInfixExpression(tok, operator, left, right)
      [] OTHER ->
            IF Type(left) # Type(right)
            THEN newError(tok, "type mismatch: " \o Type(left) \o " "
                               \o operator \o " " \o Type(right))
            ELSE IF operator = "==" THEN nativeBoolToBooleanObject(SameObject(left, right))
            ELSE IF operator = "!=" THEN nativeBoolToBooleanObject(~SameObject(left, right))
            ELSE newError(tok, "unknown operator: " \o Type(left) \o " "
                               \o operator \o " " \o Type(right))

\* An infix dispatch that reports every unsupported pair as an unknown operator.
evalInfixExpressionNoMismatch(tok, operator, left, right) ==
    CASE Type(left) = "INTEGER" /\ Type(right) = "INTEGER" ->
            evalIntegerInfixExpression(tok, operator, left, right)
      [] Type(left) = "STRING" /\ Type(right) = "STRING" ->
            evalStringInfixExpression(tok, operator, left, right)
      [] OTHER ->
            IF operator = "==" THEN nativeBoolToBooleanObject(SameObject(left, right))
            ELSE IF operator = "!=" THEN nativeBoolToBooleanObject(~SameObject(left, right))
            ELSE newError(tok, "unknown operator: " \o Type(left) \o " "
                               \o operator \o " " \o Type(right))

evalInfixExpression(tok, operator, left, right) ==
    CASE Type(left) = "INTEGER" /\ Type(right) = "INTEGER" ->
            evalIntegerInfixExpression(tok, operator, left, right)
      [] Type(left) = "STRING" /\ Type(right) = "STRING" ->
            evalStringInfixExpression(tok, operator, left, right)
      [] OTHER ->
            IF operator = "==" THEN nativeBoolToBooleanObject(SameObject(left, right))
            ELSE IF operator = "!=" THEN nativeBoolToBooleanObject(~SameObject(left, right))
            ELSE IF Type(left) # Type(right)
            THEN newError(tok, "type mismatch: " \o Type(left) \o " "
                               \o operator \o " " \o Type(right))
            ELSE newError(tok, "unknown operator: " \o Type(left) \o " "
                               \o operator \o " " \o Type(right))

\* false and null are falsy, everything else (an Error too) is truthy.
isTruthy(obj) ==
    CASE SameObject(obj, NULL) -> FALSE
      [] SameObject(obj, FALSE_) -> FALSE
      [] SameObject(obj, TRUE_) -> TRUE
      [] OTHER -> TRUE

-----------------------------------------------------------------------------
(* Modules and builtins *)

\* mod.Get(name) on a Module's members.
ModuleGet(mod, name) ==
    IF name \in DOMAIN mod.Members
    THEN [val |-> mod.Members[name], ok |-> TRUE]
    ELSE [val |-> nil, ok |-> FALSE]

\* The io module: preach prints, input reads a line.  It is three objects, the
\* first of them numbered n + 1.
createIOModule(n) ==
    Module(n + 1, "io",
           ("preach" :> Builtin(n + 2, "preach")) @@ ("input" :> Builtin(n + 3, "input")))

\* A loader that reports a name it does not know.
loadModuleKnownOnly(name, n) ==
    IF name = "io" THEN [val |-> createIOModule(n), allocated |-> 3]
    ELSE [val |-> newError(Tok(0, 0), "unknown module: " \o name), allocated |-> 0]

\* loadModule(name): the module and how many objects it allocated.
loadModule(name, n) ==
    IF name = "io" THEN [val |-> createIOModule(n), allocated |-> 3]
    ELSE [val |-> Module(n + 1, name, EmptyStore), allocated |-> 1]

\* fmt.Println(arg.Inspect()) for each argument, in order.
RECURSIVE PrintlnAll(_, _, _)
PrintlnAll(args, i, out) ==
    IF i > Len(args) THEN out
    ELSE PrintlnAll(args, i + 1, Append(out, [op |-> "Println", arg |-> args[i]]))

\* builtin.Fn(args...): its result, and standard output and input after it.
ApplyBuiltin(builtin, args, out, in) ==
    IF builtin.Fn = "preach"
    THEN [val |-> NULL, stdout |-> PrintlnAll(args, 1, out), stdin |-> in]
    ELSE LET out1 == IF Len(args) > 0
                     THEN Append(out, [op |-> "Print", arg |-> args[1]])
                     ELSE out
         IN  IF Len(in) > 0
             THEN [val |-> String(Head(in)), stdout |-> out1, stdin |-> Tail(in)]
             ELSE [val |-> String(""), stdout |-> out1, stdin |-> in]

-----------------------------------------------------------------------------
(* The evaluator's call stack and its history *)

\* One call of Eval(node, env): pc is the position in the handler of the node's
\* kind, self the call's number in trace, the rest the handler's locals.
Frame(node, env, self) ==
    [node |-> node, env |-> env, pc |-> 0, self |-> self,
     i |-> 0, result |-> nil, left |-> nil, function |-> nil, args |-> <<>>]

\* The call of Eval that is running.
Top == stack[Len(stack)]

Running == abort = "" /\ stack # <<>>

\* The name a node declares, assigns or looks up, "" for the other kinds.
NameOf(node) ==
    CASE node.kind = "Identifier" -> node.Value
      [] node.kind \in {"VariableDeclaration", "AssignmentStatement",
                        "FunctionDeclaration"} -> node.Name.Value
      [] node.kind = "WrangleStatement" -> node.ModuleName.Value
      [] node.kind \in {"PrefixExpression", "InfixExpression"} -> node.Operator
      [] node.kind = "MemberAccessExpression" -> node.Member.Value
      [] OTHER -> ""

\* An entry of trace.  k is "enter" or "exit"; self numbers the call, parent is
\* the calling Eval's number (0 for main()); nenv is how many environments
\* existed; val is what the call returned (nil on enter).
Event(k, node, env, self, parent, nenv, val) ==
    [k |-> k, kind |-> node.kind, Token |-> node.Token, name |-> NameOf(node),
     env |-> env, self |-> self, parent |-> parent, nenv |-> nenv, val |-> val]

\* Eval(node, env) is called from the call numbered parent, above the frames
\* base; heap is the environments at that moment.  A run that has used up
\* its calls is cut off here.
EnterEval(base, parent, node, env, heap) ==
    IF fuel = 0
    THEN /\ abort' = "fuel"
         /\ UNCHANGED <<stack, ret, trace, fuel>>
    ELSE /\ stack' = Append(base, Frame(node, env, Len(trace) + 1))
         /\ trace' = Append(trace, Event("enter", node, env, Len(trace) + 1,
                                         parent, Len(heap), nil))
         /\ fuel' = fuel - 1
         /\ UNCHANGED <<ret, abort>>

\* The running handler, its locals now as in f, calls Eval(node, env) and
\* resumes at position next when that returns.
CallEvalIn(f, next, node, env, heap) ==
    EnterEval([stack EXCEPT ![Len(stack)] = [f EXCEPT !.pc = next]],
              f.self, node, env, heap)

CallEval(f, next, node, env) == CallEvalIn(f, next, node, env, envs)

\* The running call returns val to its caller.
Return(val) ==
    /\ stack' = SubSeq(stack, 1, Len(stack) - 1)
    /\ ret' = val
    /\ trace' = Append(trace, Event("exit", Top.node, Top.env, Top.self,
                          IF Len(stack) > 1 THEN stack[Len(stack) - 1].self ELSE 0,
                          Len(envs), val))
    /\ UNCHANGED <<fuel, abort>>

\* A Go run-time panic: nothing recovers it, the evaluation stops where it is.
Panic ==
    /\ abort' = "panic"
    /\ UNCHANGED <<stack, ret, trace, fuel>>

-----------------------------------------------------------------------------
(* The evaluator: Eval's switch and the handlers it dispatches to *)

\* case *ast.IntegerLiteral, *ast.BooleanLiteral, *ast.StringLiteral
evalLiteral ==
    /\ Running
    /\ Top.node.kind \in {"IntegerLiteral", "BooleanLiteral", "StringLiteral"}
    /\ LET n == Top.node
       IN  CASE n.kind = "IntegerLiteral" -> Return(Integer(n.Value))
             [] n.kind = "BooleanLiteral" -> Return(nativeBoolToBooleanObject(n.Value))
             [] n.kind = "StringLiteral" -> Return(String(n.Value))
    /\ UNCHANGED <<mainVars, envs, nobj, stdout, stdin>>

\* An identifier lookup that yields NULL where the name is bound nowhere.
evalIdentifierSilent ==
    /\ Running
    /\ Top.node.kind = "Identifier"
    /\ LET g == Get(envs, Top.env, Top.node.Value)
       IN  IF ~g.ok THEN Return(NULL) ELSE Return(g.val)
    /\ UNCHANGED <<mainVars, envs, nobj, stdout, stdin>>

evalIdentifier ==
    /\ Running
    /\ Top.node.kind = "Identifier"
    /\ LET node == Top.node
           g == Get(envs, Top.env, node.Value)
       IN  IF ~g.ok
           THEN Return(newError(node.Token, "identifier not found: " \o node.Value))
           ELSE Return(g.val)
    /\ UNCHANGED <<mainVars, envs, nobj, stdout, stdin>>

\* case *ast.PrefixExpression
evalPrefixNode ==
    /\ Running
    /\ Top.node.kind = "PrefixExpression"
    /\ LET n == Top.node
       IN  CASE Top.pc = 0 -> CallEval(Top, 1, n.Right, Top.env)
             [] Top.pc = 1 ->
                  LET right == ret
                  IN  IF isError(right) THEN Return(right)
                      ELSE Return(evalPrefixExpression(n.Token, n.Operator, right))
    /\ UNCHANGED <<mainVars, envs, nobj, stdout, stdin>>

\* case *ast.InfixExpression
evalInfixNode ==
    /\ Running
    /\ Top.node.kind = "InfixExpression"
    /\ LET n == Top.node
       IN  CASE Top.pc = 0 -> CallEval(Top, 1, n.Left, Top.env)
             [] Top.pc = 1 ->
                  LET left == ret
                  IN  IF isError(left) THEN Return(left)
                      ELSE CallEval([Top EXCEPT !.left = left], 2, n.Right, Top.env)
             [] Top.pc = 2 ->
                  LET right == ret
                      v == evalInfixExpression(n.Token, n.Operator, Top.left, right)
                  IN  IF isError(right) THEN Return(right)
                      ELSE IF Type(v) = "panic" THEN Panic
                      ELSE Return(v)
    /\ UNCHANGED <<mainVars, envs, nobj, stdout, stdin>>

\* case *ast.VariableDeclaration
evalVariableDeclaration ==
    /\ Running
    /\ Top.node.kind = "VariableDeclaration"
    /\ LET n == Top.node
       IN  CASE Top.pc = 0 -> CallEval(Top, 1, n.Value, Top.env) /\ UNCHANGED envs
             [] Top.pc = 1 ->
                  LET val == ret
                  IN  /\ envs' = Set(envs, Top.env, n.Name.Value, val)
                      /\ Return(val)
    /\ UNCHANGED <<mainVars, nobj, stdout, stdin>>

evalAssignmentStatement ==
    /\ Running
    /\ Top.node.kind = "AssignmentStatement"
    /\ LET stmt == Top.node
       IN  CASE Top.pc = 0 -> CallEval(Top, 1, stmt.Value, Top.env) /\ UNCHANGED envs
             [] Top.pc = 1 ->
                  LET val == ret
                  IN  /\ envs' = Set(envs, Top.env, stmt.Name.Value, val)
                      /\ Return(val)
    /\ UNCHANGED <<mainVars, nobj, stdout, stdin>>

\* case *ast.ExpressionStatement: return Eval(n.Expression, env)
evalExpressionStatement ==
    /\ Running
    /\ Top.node.kind = "ExpressionStatement"
    /\ CASE Top.pc = 0 -> CallEval(Top, 1, Top.node.Expression, Top.env)
         [] Top.pc = 1 -> Return(ret)
    /\ UNCHANGED <<mainVars, envs, nobj, stdout, stdin>>

\* evalProgram: the statements in order; an Error stops it, a ReturnValue stops
\* it and is unwrapped.
evalProgram ==
    /\ Running
    /\ Top.node.kind = "Program"
    /\ LET prog == Top.node
           statement(i, result) ==
               IF i > Len(prog.Statements) THEN Return(result)
               ELSE CallEval([Top EXCEPT !.i = i, !.result = result], 1,
                             prog.Statements[i], Top.env)
       IN  CASE Top.pc = 0 -> statement(1, nil)
             [] Top.pc = 1 ->
                  LET result == ret
                  IN  IF isError(result) THEN Return(result)
                      ELSE IF Type(result) = "RETURN_VALUE" THEN Return(result.Value)
                      ELSE statement(Top.i + 1, result)
    /\ UNCHANGED <<mainVars, envs, nobj, stdout, stdin>>

\* A block that stops on an Error only and runs on after a ReturnValue.
evalBlockStatementPastReturn ==
    /\ Running
    /\ Top.node.kind = "BlockStatement"
    /\ LET block == Top.node
           statement(i, result) ==
               IF i > Len(block.Statements) THEN Return(result)
               ELSE CallEval([Top EXCEPT !.i = i, !.result = result], 1,
                             block.Statements[i], Top.env)
       IN  CASE Top.pc = 0 -> statement(1, nil)
             [] Top.pc = 1 ->
                  LET result == ret
                  IN  IF isError(result) THEN Return(result)
                      ELSE statement(Top.i + 1, result)
    /\ UNCHANGED <<mainVars, envs, nobj, stdout, stdin>>

\* evalBlockStatement: as evalProgram, but a ReturnValue is passed up wrapped.
evalBlockStatement ==
    /\ Running
    /\ Top.node.kind = "BlockStatement"
    /\ LET block == Top.node
           statement(i, result) ==
               IF i > Len(block.Statements) THEN Return(result)
               ELSE CallEval([Top EXCEPT !.i = i, !.result = result], 1,
                             block.Statements[i], Top.env)
       IN  CASE Top.pc = 0 -> statement(1, nil)
             [] Top.pc = 1 ->
                  LET result == ret
                  IN  IF isError(result) THEN Return(result)
                      ELSE IF Type(result) # "nil" /\ Type(result) = "RETURN_VALUE"
                      THEN Return(result)
                      ELSE statement(Top.i + 1, result)
    /\ UNCHANGED <<mainVars, envs, nobj, stdout, stdin>>

\* An if that, without an alternative to evaluate, yields its condition.
evalIfStatementYieldsCondition ==
    /\ Running
    /\ Top.node.kind = "IfStatement"
    /\ LET ifStmt == Top.node
       IN  CASE Top.pc = 0 -> CallEval(Top, 1, ifStmt.Condition, Top.env)
             [] Top.pc = 1 ->
                  LET condition == ret
                  IN  IF isTruthy(condition)
                      THEN CallEval(Top, 2, ifStmt.Consequence, Top.env)
                      ELSE IF ifStmt.Alternative.kind # "none"
                      THEN CallEval(Top, 2, ifStmt.Alternative, Top.env)
                      ELSE Return(condition)
             [] Top.pc = 2 -> Return(ret)
    /\ UNCHANGED <<mainVars, envs, nobj, stdout, stdin>>

\* An if whose branch is evaluated in a new environment enclosed by the
\* statement's.
evalIfStatementInNewScope ==
    /\ Running
    /\ Top.node.kind = "IfStatement"
    /\ LET ifStmt == Top.node
           scope == NewEnclosedEnvironment(envs, Top.env)
       IN  CASE Top.pc = 0 -> CallEval(Top, 1, ifStmt.Condition, Top.env) /\ UNCHANGED envs
             [] Top.pc = 1 ->
                  LET condition == ret
                  IN  IF isTruthy(condition)
                      THEN /\ envs' = scope
                           /\ CallEvalIn(Top, 2, ifStmt.Consequence, Len(scope), scope)
                      ELSE IF ifStmt.Alternative.kind # "none"
                      THEN /\ envs' = scope
                           /\ CallEvalIn(Top, 2, ifStmt.Alternative, Len(scope), scope)
                      ELSE Return(NULL) /\ UNCHANGED envs
             [] Top.pc = 2 -> Return(ret) /\ UNCHANGED envs
    /\ UNCHANGED <<mainVars, nobj, stdout, stdin>>

evalIfStatement ==
    /\ Running
    /\ Top.node.kind = "IfStatement"
    /\ LET ifStmt == Top.node
       IN  CASE Top.pc = 0 -> CallEval(Top, 1, ifStmt.Condition, Top.env)
             [] Top.pc = 1 ->
                  LET condition == ret
                  IN  IF isTruthy(condition)
                      THEN CallEval(Top, 2, ifStmt.Consequence, Top.env)
                      ELSE IF ifStmt.Alternative.kind # "none"
                      THEN CallEval(Top, 2, ifStmt.Alternative, Top.env)
                      ELSE Return(NULL)
             [] Top.pc = 2 -> Return(ret)
    /\ UNCHANGED <<mainVars, envs, nobj, stdout, stdin>>

\* A loop whose result starts as Go's nil instead of NULL.
evalWhileLoopNilResult ==
    /\ Running
    /\ Top.node.kind = "WhileLoop"
    /\ LET loop == Top.node
       IN  CASE Top.pc = 0 ->
                  CallEval([Top EXCEPT !.result = nil], 1, loop.Condition, Top.env)
             [] Top.pc = 1 ->
                  LET condition == ret
                  IN  IF ~isTruthy(condition) THEN Return(Top.result)
                      ELSE CallEval(Top, 2, loop.Body, Top.env)
             [] Top.pc = 2 ->
                  LET result == ret
                  IN  IF Type(result) # "nil" /\ Type(result) = "RETURN_VALUE"
                      THEN Return(result)
                      ELSE CallEval([Top EXCEPT !.result = result], 1,
                                    loop.Condition, Top.env)
    /\ UNCHANGED <<mainVars, envs, nobj, stdout, stdin>>

evalWhileLoop ==
    /\ Running
    /\ Top.node.kind = "WhileLoop"
    /\ LET loop == Top.node
       IN  CASE Top.pc = 0 ->
                  CallEval([Top EXCEPT !.result = NULL], 1, loop.Condition, Top.env)
             [] Top.pc = 1 ->
                  LET condition == ret
                  IN  IF ~isTruthy(condition) THEN Return(Top.result)
                      ELSE CallEval(Top, 2, loop.Body, Top.env)
             [] Top.pc = 2 ->
                  LET result == ret
                  IN  IF Type(result) # "nil" /\ Type(result) = "RETURN_VALUE"
                      THEN Return(result)
                      ELSE CallEval([Top EXCEPT !.result = result], 1,
                                    loop.Condition, Top.env)
    /\ UNCHANGED <<mainVars, envs, nobj, stdout, stdin>>

\* A declaration whose Function captures a copy of the environment, taken
\* before the name is bound.
evalFunctionDeclarationSnapshot ==
    /\ Running
    /\ Top.node.kind = "FunctionDeclaration"
    /\ LET fn == Top.node
           function == Function(nobj + 1, fn.Parameters, fn.Body, Len(envs) + 1)
       IN  /\ nobj' = nobj + 1
           /\ envs' = Set(Append(envs, envs[Top.env]), Top.env, fn.Name.Value, function)
           /\ Return(function)
    /\ UNCHANGED <<mainVars, stdout, stdin>>

\* A Function object capturing env, bound to the function's name in env.
evalFunctionDeclaration ==
    /\ Running
    /\ Top.node.kind = "FunctionDeclaration"
    /\ LET fn == Top.node
           function == Function(nobj + 1, fn.Parameters, fn.Body, Top.env)
       IN  /\ nobj' = nobj + 1
           /\ envs' = Set(envs, Top.env, fn.Name.Value, function)
           /\ Return(function)
    /\ UNCHANGED <<mainVars, stdout, stdin>>

evalReturnStatement ==
    /\ Running
    /\ Top.node.kind = "ReturnStatement"
    /\ CASE Top.pc = 0 -> CallEval(Top, 1, Top.node.ReturnValue, Top.env)
         [] Top.pc = 1 -> LET val == ret IN Return(ReturnValue(val))
    /\ UNCHANGED <<mainVars, envs, nobj, stdout, stdin>>

\* Parameter binding that gives a parameter without an argument the value NULL.
RECURSIVE bindParametersLenient(_, _, _, _, _)
bindParametersLenient(heap, parameters, args, i, fnEnv) ==
    IF i > Len(parameters) THEN [heap |-> heap, ok |-> TRUE]
    ELSE bindParametersLenient(
             Set(heap, fnEnv, parameters[i].Value,
                 IF i > Len(args) THEN NULL ELSE args[i]),
             parameters, args, i + 1, fnEnv)

\* for i, param := range fn.Parameters { fnEnv.Set(param.Value, args[i]) }
\* from parameter i on: the heap after it, and whether args[i] was in range
\* every time.
RECURSIVE bindParameters(_, _, _, _, _)
bindParameters(heap, parameters, args, i, fnEnv) ==
    IF i > Len(parameters) THEN [heap |-> heap, ok |-> TRUE]
    ELSE IF i > Len(args) THEN [heap |-> heap, ok |-> FALSE]
    ELSE bindParameters(Set(heap, fnEnv, parameters[i].Value, args[i]),
                        parameters, args, i + 1, fnEnv)

\* A call environment with no outer environment at all.
functionEnvironmentDetached(heap, fn, env) == NewEnvironment(heap)

\* A call environment enclosed by the caller's environment: dynamic scoping.
functionEnvironmentOfCaller(heap, fn, env) == NewEnclosedEnvironment(heap, env)

\* fnEnv := object.NewEnclosedEnvironment(fn.Env): the heap with the environment
\* of a call of fn made from environment env, which plays no part in it.
functionEnvironment(heap, fn, env) == NewEnclosedEnvironment(heap, fn.Env)

\* evalFunctionCall once function and args are evaluated (they are in f): the
\* argument check, the builtin, the non-function, and the call of a Function's
\* body in a new environment enclosed by the function's own.
applyFunction(f) ==
    LET call == f.node
        function == f.function
        args == f.args
    IN  IF Len(args) = 1 /\ isError(args[1])
        THEN Return(args[1]) /\ UNCHANGED <<envs, stdout, stdin>>
        ELSE IF Type(function) = "BUILTIN"
        THEN LET b == ApplyBuiltin(function, args, stdout, stdin)
             IN  /\ stdout' = b.stdout
                 /\ stdin' = b.stdin
                 /\ Return(b.val)
                 /\ UNCHANGED envs
        ELSE IF Type(function) = "nil"
        THEN Panic /\ UNCHANGED <<envs, stdout, stdin>>
        ELSE IF Type(function) # "FUNCTION"
        THEN /\ Return(newError(call.Token, "not a function: " \o Type(function)))
             /\ UNCHANGED <<envs, stdout, stdin>>
        ELSE LET fn == function
                 fnEnv == Len(envs) + 1
                 bound == bindParameters(functionEnvironment(envs, fn, f.env),
                                         fn.Parameters, args, 1, fnEnv)
             IN  /\ envs' = bound.heap
                 /\ IF bound.ok THEN CallEvalIn(f, 3, fn.Body, fnEnv, bound.heap)
                    ELSE Panic
                 /\ UNCHANGED <<stdout, stdin>>

\* The body's value handed to the caller as it is.
functionResultAsIs(result) ==
    IF isError(result) THEN result
    ELSE IF Type(result) = "RETURN_VALUE" THEN result.Value
    ELSE result

\* What evalFunctionCall returns when the body has returned result: an Error as
\* it is, the value of a ReturnValue, and NULL otherwise.
functionResult(result) ==
    IF isError(result) THEN result
    ELSE IF Type(result) = "RETURN_VALUE" THEN result.Value
    ELSE NULL

\* evalExpressions' loop in the frame f of the call, from expression i on.
expression(f, i) ==
    LET exps == f.node.Arguments
    IN  IF i > Len(exps) THEN applyFunction(f)
        ELSE /\ CallEval([f EXCEPT !.i = i], 2, exps[i], f.env)
             /\ UNCHANGED <<envs, stdout, stdin>>

evalFunctionCall ==
    /\ Running
    /\ Top.node.kind = "FunctionCall"
    /\ Top.pc # 2
    /\ LET call == Top.node
       IN  CASE Top.pc = 0 ->
                  /\ CallEval(Top, 1, call.Function, Top.env)
                  /\ UNCHANGED <<envs, stdout, stdin>>
             [] Top.pc = 1 ->
                  LET function == ret
                  IN  IF isError(function)
                      THEN Return(function) /\ UNCHANGED <<envs, stdout, stdin>>
                      ELSE expression([Top EXCEPT !.function = function], 1)
             [] Top.pc = 3 ->
                  LET result == ret
                  IN  /\ Return(functionResult(result))
                      /\ UNCHANGED <<envs, stdout, stdin>>
    /\ UNCHANGED <<mainVars, nobj>>

\* evalExpressions: every expression is evaluated and its value appended,
\* whatever it is.
evalExpressions ==
    /\ Running
    /\ Top.node.kind = "FunctionCall"
    /\ Top.pc = 2
    /\ LET evaluated == ret
       IN  expression([Top EXCEPT !.args = Append(@, evaluated)], Top.i + 1)
    /\ UNCHANGED <<mainVars, nobj>>

evalWrangleStatement ==
    /\ Running
    /\ Top.node.kind = "WrangleStatement"
    /\ LET stmt == Top.node
           moduleName == stmt.ModuleName.Value
           mod == loadModule(moduleName, nobj)
       IN  /\ nobj' = nobj + mod.allocated
           /\ envs' = Set(envs, Top.env, moduleName, mod.val)
           /\ Return(mod.val)
    /\ UNCHANGED <<mainVars, stdout, stdin>>

\* A member access that reports an object that is not a Module.
evalMemberAccessExpressionStrict ==
    /\ Running
    /\ Top.node.kind = "MemberAccessExpression"
    /\ LET expr == Top.node
       IN  CASE Top.pc = 0 -> CallEval(Top, 1, expr.Object, Top.env)
             [] Top.pc = 1 ->
                  LET obj == ret
                  IN  IF Type(obj) = "MODULE"
                      THEN LET member == ModuleGet(obj, expr.Member.Value)
                           IN  IF ~member.ok THEN Return(NULL) ELSE Return(member.val)
                      ELSE Return(newError(expr.Token, "not a module: " \o Type(obj)))
    /\ UNCHANGED <<mainVars, envs, nobj, stdout, stdin>>

evalMemberAccessExpression ==
    /\ Running
    /\ Top.node.kind = "MemberAccessExpression"
    /\ LET expr == Top.node
       IN  CASE Top.pc = 0 -> CallEval(Top, 1, expr.Object, Top.env)
             [] Top.pc = 1 ->
                  LET obj == ret
                  IN  IF Type(obj) = "MODULE"
                      THEN LET member == ModuleGet(obj, expr.Member.Value)
                           IN  IF ~member.ok THEN Return(NULL) ELSE Return(member.val)
                      ELSE Return(NULL)
    /\ UNCHANGED <<mainVars, envs, nobj, stdout, stdin>>

-----------------------------------------------------------------------------
(* main() *)

\* fmt.Printf("  %s\n", msg) for each parser message.
RECURSIVE PrintErrors(_, _, _)
PrintErrors(msgs, i, out) ==
    IF i > Len(msgs) THEN out
    ELSE PrintErrors(msgs, i + 1, Append(out, [op |-> "Printf", arg |-> String(msgs[i])]))

\* len(p.Errors()) > 0: print them and exit 1.
ReportParserErrors ==
    /\ pc = "parse"
    /\ Len(errors) > 0
    /\ stdout' = PrintErrors(errors, 1,
                    Append(stdout, [op |-> "Println", arg |-> String("Parser errors:")]))
    /\ pc' = "exit"
    /\ exitStatus' = 1
    /\ UNCHANGED <<scenario, program, errors, stack, ret, envs, nobj, stdin,
                   trace, fuel, abort>>

\* A main() that evaluates what the parser returned whatever its error list.
EvaluateProgramRegardless ==
    /\ pc = "parse"
    /\ LET heap == NewEnvironment(envs)
           env == Len(heap)
       IN  /\ envs' = heap
           /\ EnterEval(<<>>, 0, program, env, heap)
    /\ pc' = "eval"
    /\ UNCHANGED <<scenario, program, errors, exitStatus, nobj, stdout, stdin>>

\* env := object.NewEnvironment(); evaluator.Eval(program, env)
EvaluateProgram ==
    /\ pc = "parse"
    /\ Len(errors) = 0
    /\ LET heap == NewEnvironment(envs)
           env == Len(heap)
       IN  /\ envs' = heap
           /\ EnterEval(<<>>, 0, program, env, heap)
    /\ pc' = "eval"
    /\ UNCHANGED <<scenario, program, errors, exitStatus, nobj, stdout, stdin>>

\* The environment main() created.
GlobalEnv == 1

\* evaluator.Eval(program, env) has returned to main(), which drops what it
\* returned.
Evaluated == pc = "eval" /\ stack = <<>> /\ abort = ""

\* A main() that evaluates the body of ChurchOfBeef in the environment of the
\* top level itself.
CallEntryPointInGlobal ==
    /\ Evaluated
    /\ LET entryPoint == Get(envs, GlobalEnv, "ChurchOfBeef")
       IN  /\ entryPoint.ok
           /\ Type(entryPoint.val) = "FUNCTION"
           /\ EnterEval(<<>>, 0, entryPoint.val.Body, GlobalEnv, envs)
    /\ pc' = "entry"
    /\ UNCHANGED <<scenario, program, errors, exitStatus, envs, nobj, stdout, stdin>>

\* ChurchOfBeef is bound to a Function: evaluate its body in a new environment
\* enclosed by the function's.
CallEntryPoint ==
    /\ Evaluated
    /\ LET entryPoint == Get(envs, GlobalEnv, "ChurchOfBeef")
       IN  /\ entryPoint.ok
           /\ Type(entryPoint.val) = "FUNCTION"
           /\ LET fn == entryPoint.val
                  heap == NewEnclosedEnvironment(envs, fn.Env)
                  entryEnv == Len(heap)
              IN  /\ envs' = heap
                  /\ EnterEval(<<>>, 0, fn.Body, entryEnv, heap)
    /\ pc' = "entry"
    /\ UNCHANGED <<scenario, program, errors, exitStatus, nobj, stdout, stdin>>

EntryPointNotAFunction ==
    /\ Evaluated
    /\ LET entryPoint == Get(envs, GlobalEnv, "ChurchOfBeef")
       IN  entryPoint.ok /\ Type(entryPoint.val) # "FUNCTION"
    /\ stdout' = Append(stdout, [op |-> "Println",
                                 arg |-> String("Error: ChurchOfBeef is not a function")])
    /\ pc' = "exit"
    /\ exitStatus' = 1
    /\ UNCHANGED <<scenario, program, errors, stack, ret, envs, nobj, stdin,
                   trace, fuel, abort>>

NoEntryPoint ==
    /\ Evaluated
    /\ ~Get(envs, GlobalEnv, "ChurchOfBeef").ok
    /\ stdout' = Append(stdout, [op |-> "Println",
                    arg |-> String("Error: no ChurchOfBeef() entry point function found")])
    /\ pc' = "exit"
    /\ exitStatus' = 1
    /\ UNCHANGED <<scenario, program, errors, stack, ret, envs, nobj, stdin,
                   trace, fuel, abort>>

\* The entry point's body has returned, its result is dropped, and main()
\* returns: the process exits with status 0.
ReturnFromMain ==
    /\ pc = "entry"
    /\ stack = <<>>
    /\ abort = ""
    /\ pc' = "exit"
    /\ exitStatus' = 0
    /\ UNCHANGED <<scenario, program, errors, stack, ret, envs, nobj, stdout, stdin,
                   trace, fuel, abort>>

\* An unrecovered panic ends the process with exit status 2.
ExitOnPanic ==
    /\ pc # "exit"
    /\ abort = "panic"
    /\ pc' = "exit"
    /\ exitStatus' = 2
    /\ UNCHANGED <<scenario, program, errors, stack, ret, envs, nobj, stdout, stdin,
                   trace, fuel, abort>>

-----------------------------------------------------------------------------
(* Inputs: the programs the runs are given, written as the parser builds     *)
(* them.  The Beeflang source of each is in the comment above it.            *)

Id(l, c, name) == Identifier(Tok(l, c), name)
Num(l, c, v) == IntegerLiteral(Tok(l, c), Int64(v))
Str(l, c, v) == StringLiteral(Tok(l, c), v)
Bool(l, c, v) == BooleanLiteral(Tok(l, c), v)
Expr(e) == ExpressionStatement(e.Token, e)
Block(l, c, stmts) == BlockStatement(Tok(l, c), stmts)
\* name(args) at line l, column c
Call(l, c, name, args) == FunctionCall(Tok(l, c + 1), Id(l, c, name), args)
\* io.preach(args) at line l, column c
Preach(l, c, args) ==
    Expr(FunctionCall(Tok(l, c + 9),
                      MemberAccessExpression(Tok(l, c + 2), Id(l, c, "io"), Id(l, c + 3, "preach")),
                      args))
\* praise name(params): stmts beef, at line l
Praise(l, name, params, stmts) ==
    FunctionDeclaration(Tok(l, 1), Id(l, 8, name), params, Block(l + 1, 3, stmts))
\* an identifier no program binds
Undefined(l, c) == Id(l, c, "someUndefinedVariable")

Wrangle == WrangleStatement(Tok(1, 1), Id(1, 9, "io"))

\* wrangle io / decls / praise ChurchOfBeef(): stmts beef
InEntry(decls, stmts) ==
    Program(<<Wrangle>> \o decls \o <<Praise(8, "ChurchOfBeef", <<>>, stmts)>>)

\* wrangle io / praise ChurchOfBeef(): io.preach("amen") beef / decls / stmts
AtTop(decls, stmts) ==
    Program(<<Wrangle, Praise(8, "ChurchOfBeef", <<>>, <<Preach(9, 3, <<Str(9, 13, "amen")>>)>>)>>
            \o decls \o stmts)

\* io.preach("after"): the statement that follows the one under test
After1 == Preach(19, 3, <<Str(19, 13, "after")>>)

\* The statements whose sub-expression fails, by number.
ErrStmts(k) ==
    CASE k = 1 ->   \* -someUndefinedVariable
            <<Expr(PrefixExpression(Tok(10, 3), "-", Undefined(10, 4)))>>
      [] k = 2 ->   \* someUndefinedVariable + 1
            <<Expr(InfixExpression(Tok(10, 25), "+", Undefined(10, 3), Num(10, 27, 1)))>>
      [] k = 3 ->   \* 1 + someUndefinedVariable
            <<Expr(InfixExpression(Tok(10, 5), "+", Num(10, 3, 1), Undefined(10, 7)))>>
      [] k = 4 ->   \* prep x = someUndefinedVariable
            <<VariableDeclaration(Tok(10, 3), Id(10, 8, "x"), Undefined(10, 12))>>
      [] k = 5 ->   \* x = someUndefinedVariable
            <<AssignmentStatement(Tok(10, 3), Id(10, 3, "x"), Undefined(10, 7))>>
      [] k = 6 ->   \* if someUndefinedVariable: io.preach("then") beef
            <<IfStatement(Tok(10, 3), Undefined(10, 6),
                          Block(11, 5, <<Preach(11, 5, <<Str(11, 15, "then")>>)>>),
                          NoAlternative)>>
      [] k = 7 ->   \* if someUndefinedVariable: io.preach("then") else: io.preach("else") beef
            <<IfStatement(Tok(10, 3), Undefined(10, 6),
                          Block(11, 5, <<Preach(11, 5, <<Str(11, 15, "then")>>)>>),
                          Block(13, 5, <<Preach(13, 5, <<Str(13, 15, "else")>>)>>))>>
      [] k = 8 ->   \* feast while someUndefinedVariable: io.preach("loop") beef
            <<WhileLoop(Tok(10, 3), Undefined(10, 15),
                        Block(11, 5, <<Preach(11, 5, <<Str(11, 15, "loop")>>)>>))>>
      [] k = 9 ->   \* prep i = 0 / feast while i < 2: i = i + 1 / someUndefinedVariable beef
            <<VariableDeclaration(Tok(10, 3), Id(10, 8, "i"), Num(10, 12, 0)),
              WhileLoop(Tok(11, 3),
                        InfixExpression(Tok(11, 17), "<", Id(11, 15, "i"), Num(11, 19, 2)),
                        Block(12, 5,
                              <<AssignmentStatement(Tok(12, 5), Id(12, 5, "i"),
                                    InfixExpression(Tok(12, 11), "+", Id(12, 9, "i"),
                                                    Num(12, 13, 1))),
                                Expr(Undefined(13, 5))>>))>>
      [] k = 10 ->  \* serve someUndefinedVariable
            <<ReturnStatement(Tok(10, 3), Undefined(10, 9))>>
      [] k = 11 ->  \* someUndefinedVariable()
            <<Expr(Call(10, 3, "someUndefinedVariable", <<>>))>>
      [] k = 12 ->  \* someUndefinedVariable.member
            <<Expr(MemberAccessExpression(Tok(10, 24), Undefined(10, 3), Id(10, 25, "member")))>>
      [] k = 13 ->  \* someUndefinedVariable
            <<Expr(Undefined(10, 3))>>
      [] k = 14 ->  \* 5 + true
            <<Expr(InfixExpression(Tok(10, 5), "+", Num(10, 3, 5), Bool(10, 7, TRUE)))>>
      [] k = 15 ->  \* -true
            <<Expr(PrefixExpression(Tok(10, 3), "-", Bool(10, 4, TRUE)))>>
      [] k = 16 ->  \* io.nothing()
            <<Expr(FunctionCall(Tok(10, 13),
                      MemberAccessExpression(Tok(10, 5), Id(10, 3, "io"), Id(10, 6, "nothing")),
                      <<>>))>>
      [] k = 17 ->  \* prep m = 5 / m()
            <<VariableDeclaration(Tok(10, 3), Id(10, 8, "m"), Num(10, 12, 5)),
              Expr(Call(11, 3, "m", <<>>))>>
      [] k = 18 ->  \* prep y = !someUndefinedVariable
            <<VariableDeclaration(Tok(10, 3), Id(10, 8, "y"),
                                  PrefixExpression(Tok(10, 12), "!", Undefined(10, 13)))>>
      [] OTHER ->   \* if 1 < 2: someUndefinedVariable beef
            <<IfStatement(Tok(10, 3),
                          InfixExpression(Tok(10, 8), "<", Num(10, 6, 1), Num(10, 10, 2)),
                          Block(11, 5, <<Expr(Undefined(11, 5))>>),
                          NoAlternative)>>

\* Parameter names and argument values of the "args" inputs.
ParamNames == <<"a", "b", "c", "d", "e">>

\* The arguments 1 .. n of a call at line l, argument i being the undefined
\* identifier (none when i = 0) and argument j otherwise the integer j.
ArgList(l, n, i) ==
    [j \in 1 .. n |-> IF j = i THEN Undefined(l, 20 + 3 * j) ELSE Num(l, 20 + 3 * j, j)]

\* praise f(a, b, c): io.preach("body") beef   (n parameters)
ArgsDecl(n) ==
    Praise(4, "f", [j \in 1 .. n |-> Id(4, 8 + 3 * j, ParamNames[j])],
           <<Preach(5, 3, <<Str(5, 13, "body")>>)>>)

\* f(1, someUndefinedVariable, 3) or io.preach(1, someUndefinedVariable, 3)
ArgsStmts(n, i, user) ==
    IF user = 1
    THEN <<Expr(Call(10, 3, "f", ArgList(10, n, i)))>>
    ELSE <<Preach(10, 3, ArgList(10, n, i))>>

\* praise f(<a parameters>): io.preach("body") beef
\* praise ChurchOfBeef(): f(<b arguments 1, 2, ...>) / io.preach("after") beef
ArityProgram(a, b) ==
    InEntry(<<ArgsDecl(a)>>, <<Expr(Call(10, 3, "f", ArgList(10, b, 0))), After1>>)

\* The infix operators of the language (README Operators).
Operators == <<"+", "-", "*", "/", "%", "<", ">", "<=", ">=", "==", "!=">>

\* The member access io.member at line l, column c.
Member(l, c, object, member) ==
    MemberAccessExpression(Tok(l, c + 2), Id(l, c, object), Id(l, c + 3, member))

\* An operand expression for each kind of value, by number: 5, 7, true, false,
\* "beef", "meat", null (a member io does not have), the functions helper and
\* other, the builtin io.preach, the module io, the computed 5 < 7, !true and
\* helper(), 0 and "".
Operand(k, l, c) ==
    CASE k = 1 -> Num(l, c, 5)
      [] k = 2 -> Num(l, c, 7)
      [] k = 3 -> Bool(l, c, TRUE)
      [] k = 4 -> Bool(l, c, FALSE)
      [] k = 5 -> Str(l, c, "beef")
      [] k = 6 -> Str(l, c, "meat")
      [] k = 7 -> Member(l, c, "io", "nothing")
      [] k = 8 -> Id(l, c, "helper")
      [] k = 9 -> Id(l, c, "other")
      [] k = 10 -> Member(l, c, "io", "preach")
      [] k = 11 -> Id(l, c, "io")
      [] k = 12 -> InfixExpression(Tok(l, c + 2), "<", Num(l, c, 5), Num(l, c + 4, 7))
      [] k = 13 -> PrefixExpression(Tok(l, c), "!", Bool(l, c + 1, TRUE))
      [] k = 14 -> Call(l, c, "helper", <<>>)
      [] k = 15 -> Num(l, c, 0)
      [] OTHER -> Str(l, c, "")

\* praise helper(): beef / praise other(): beef
\* praise ChurchOfBeef(): prep r = <operand a> <operator c> <operand b> beef
ExprProgram(a, b, c) ==
    InEntry(<<Praise(3, "helper", <<>>, <<>>), Praise(5, "other", <<>>, <<>>)>>,
            <<VariableDeclaration(Tok(10, 3), Id(10, 8, "r"),
                  InfixExpression(Tok(10, 30), Operators[c],
                                  Operand(a, 10, 12), Operand(b, 10, 40)))>>)

\* ! applied n times to the expression e, the first ! at line l, column c.
RECURSIVE Bangs(_, _, _, _)
Bangs(n, l, c, e) ==
    IF n = 0 THEN e ELSE PrefixExpression(Tok(l, c), "!", Bangs(n - 1, l, c + 1, e))

\* praise helper(): beef / praise other(): beef
\* praise ChurchOfBeef():
\*     prep r = !<operand a>            (b = 1; !!<operand a> for b = 2)
\*     if <operand a>: io.preach("truthy") beef else: io.preach("falsy") beef
\* beef
BangProgram(a, b) ==
    InEntry(<<Praise(3, "helper", <<>>, <<>>), Praise(5, "other", <<>>, <<>>)>>,
            <<VariableDeclaration(Tok(10, 3), Id(10, 8, "r"),
                                  Bangs(b, 10, 12, Operand(a, 10, 20))),
              IfStatement(Tok(11, 3), Operand(a, 11, 6),
                          Block(12, 5, <<Preach(12, 5, <<Str(12, 15, "truthy")>>)>>),
                          Block(14, 5, <<Preach(14, 5, <<Str(14, 15, "falsy")>>)>>))>>)

\* name = v at line l
Assign(l, name, v) == AssignmentStatement(Tok(l, 5), Id(l, 5, name), Num(l, 9, v))

\* praise helper(): beef / praise other(): beef
\* praise ChurchOfBeef():
\*     prep r = 0
\*     if <operand a>: r = 1 beef                        (b = 0)
\*     if <operand a>: r = 1 beef else: r = 2 beef       (b = 1)
\*     if <operand a>: beef else: beef                   (b = 2)
\*     io.preach("after")
\* beef
IfProgram(a, b) ==
    InEntry(<<Praise(3, "helper", <<>>, <<>>), Praise(5, "other", <<>>, <<>>)>>,
            <<VariableDeclaration(Tok(10, 3), Id(10, 8, "r"), Num(10, 12, 0)),
              IfStatement(Tok(11, 3), Operand(a, 11, 6),
                          Block(12, 5, IF b = 2 THEN <<>> ELSE <<Assign(12, "r", 1)>>),
                          CASE b = 0 -> NoAlternative
                            [] b = 1 -> Block(14, 5, <<Assign(14, "r", 2)>>)
                            [] OTHER -> Block(14, 5, <<>>)),
              After1>>)

\* name = name + v at line l
Increase(l, name, v) ==
    AssignmentStatement(Tok(l, 5), Id(l, 5, name),
        InfixExpression(Tok(l, 11), "+", Id(l, 9, name), Num(l, 13, v)))

\* praise ChurchOfBeef():
\*     prep i = 0
\*     prep r = 0
\*     feast while i < a:         (b = 0; while false for b = 1, while io.nothing
\*         r = r + 10              for b = 2)
\*         i = i + 1
\*         "last"                 (c = 1 only)
\*     beef
\*     io.preach("after")
\* beef
WhileProgram(a, b, c) ==
    InEntry(<<>>,
            <<VariableDeclaration(Tok(9, 3), Id(9, 8, "i"), Num(9, 12, 0)),
              VariableDeclaration(Tok(10, 3), Id(10, 8, "r"), Num(10, 12, 0)),
              WhileLoop(Tok(11, 3),
                  CASE b = 0 -> InfixExpression(Tok(11, 17), "<", Id(11, 15, "i"), Num(11, 19, a))
                    [] b = 1 -> Bool(11, 15, FALSE)
                    [] OTHER -> Member(11, 15, "io", "nothing"),
                  Block(12, 5, <<Increase(12, "r", 10), Increase(13, "i", 1)>>
                               \o IF c = 1 THEN <<Expr(Str(14, 5, "last"))>> ELSE <<>>)),
              After1>>)

\* wrangle name, at line l
WrangleOf(l, name) == WrangleStatement(Tok(l, 1), Id(l, 9, name))

\* The member names tried: the two that io has and one that it does not.
MemberNames == <<"preach", "input", "nothing">>

\* wrangle io / wrangle beefmath / praise helper(): beef / praise other(): beef
\* praise ChurchOfBeef(): prep r = <operand a>.<member b> beef
\* where operand 17 is beefmath.
MemberProgram(a, b) ==
    InEntry(<<WrangleOf(2, "beefmath"),
              Praise(3, "helper", <<>>, <<>>), Praise(5, "other", <<>>, <<>>)>>,
            <<VariableDeclaration(Tok(10, 3), Id(10, 8, "r"),
                  MemberAccessExpression(Tok(10, 30),
                      IF a = 17 THEN Id(10, 12, "beefmath") ELSE Operand(a, 10, 12),
                      Id(10, 31, MemberNames[b])))>>)

\* object.member(args) at line l, column c
MemberCall(l, c, object, member, args) ==
    FunctionCall(Tok(l, c + 20), Member(l, c, object, member), args)

\* Programs that import and use modules, by number:
\*   1  wrangle beefmath, then prep r = beefmath.sqrt(4) in the entry point
\*   2  wrangle beefmath, never used
\*   3  prep r = io.input()
\*   4  prep r = io.nothing()
\*   5  wrangle beefmath inside the entry point, then prep r = beefmath.pi()
\*   6  wrangle io a second time, then prep r = io.input()
\* each followed by io.preach("after"), which a failed call keeps from running.
ModuleProgram(k) ==
    CASE k = 1 -> InEntry(<<WrangleOf(2, "beefmath")>>,
                          <<VariableDeclaration(Tok(10, 3), Id(10, 8, "r"),
                                MemberCall(10, 12, "beefmath", "sqrt", <<Num(10, 40, 4)>>)),
                            After1>>)
      [] k = 2 -> InEntry(<<WrangleOf(2, "beefmath")>>, <<After1>>)
      [] k = 3 -> InEntry(<<>>,
                          <<VariableDeclaration(Tok(10, 3), Id(10, 8, "r"),
                                MemberCall(10, 12, "io", "input", <<>>)),
                            After1>>)
      [] k = 4 -> InEntry(<<>>,
                          <<VariableDeclaration(Tok(10, 3), Id(10, 8, "r"),
                                MemberCall(10, 12, "io", "nothing", <<>>)),
                            After1>>)
      [] k = 5 -> InEntry(<<>>,
                          <<WrangleOf(9, "beefmath"),
                            VariableDeclaration(Tok(10, 3), Id(10, 8, "r"),
                                MemberCall(10, 12, "beefmath", "pi", <<>>)),
                            After1>>)
      [] OTHER -> InEntry(<<WrangleOf(2, "io")>>,
                          <<VariableDeclaration(Tok(10, 3), Id(10, 8, "r"),
                                MemberCall(10, 12, "io", "input", <<>>)),
                            After1>>)

\* Programs about what ChurchOfBeef is bound to, by number:
\*   1  wrangle io / prep ChurchOfBeef = io.preach
\*   2  wrangle io / wrangle ChurchOfBeef
\*   3  wrangle io / praise ChurchOfBeef(a): io.preach("body") beef
\*   4  wrangle io
\*      praise make():
\*          praise inner(): io.preach(x) beef
\*          prep x = "captured"
\*          serve inner
\*      beef
\*      prep ChurchOfBeef = make()
\*   5  wrangle io / praise ChurchOfBeef(): io.preach("body") beef / ChurchOfBeef()
EntryProgram(k) ==
    CASE k = 1 -> Program(<<Wrangle,
                            VariableDeclaration(Tok(2, 1), Id(2, 6, "ChurchOfBeef"),
                                                Member(2, 21, "io", "preach"))>>)
      [] k = 2 -> Program(<<Wrangle, WrangleOf(2, "ChurchOfBeef")>>)
      [] k = 3 -> Program(<<Wrangle,
                            Praise(8, "ChurchOfBeef", <<Id(8, 21, "a")>>,
                                   <<Preach(9, 3, <<Str(9, 13, "body")>>)>>)>>)
      [] k = 4 -> Program(<<Wrangle,
                            Praise(2, "make", <<>>,
                                <<Praise(3, "inner", <<>>, <<Preach(4, 5, <<Id(4, 15, "x")>>)>>),
                                  VariableDeclaration(Tok(5, 3), Id(5, 8, "x"),
                                                      Str(5, 12, "captured")),
                                  ReturnStatement(Tok(6, 3), Id(6, 9, "inner"))>>),
                            VariableDeclaration(Tok(8, 1), Id(8, 6, "ChurchOfBeef"),
                                                Call(8, 21, "make", <<>>))>>)
      [] OTHER -> Program(<<Wrangle,
                            Praise(8, "ChurchOfBeef", <<>>,
                                   <<Preach(9, 3, <<Str(9, 13, "body")>>)>>),
                            Expr(Call(12, 1, "ChurchOfBeef", <<>>))>>)

\* The largest integer literal, 9223372036854775807.
MaxInt64Literal(l, c) == IntegerLiteral(Tok(l, c), <<255, 255, 255, 255, 255, 255, 255, 127>>)

\* An Integer operand, by number: 0, 1, -1, 2, 7, -7, 2147483648, 4294967296,
\* 3037000500, 9223372036854775807, -9223372036854775807 - 1 (the most
\* negative Integer, which no literal denotes), 4611686018427387904.
IntOperand(k, l, c) ==
    CASE k = 1 -> Num(l, c, 0)
      [] k = 2 -> Num(l, c, 1)
      [] k = 3 -> PrefixExpression(Tok(l, c), "-", Num(l, c + 1, 1))
      [] k = 4 -> Num(l, c, 2)
      [] k = 5 -> Num(l, c, 7)
      [] k = 6 -> PrefixExpression(Tok(l, c), "-", Num(l, c + 1, 7))
      [] k = 7 -> IntegerLiteral(Tok(l, c), <<0, 0, 0, 128, 0, 0, 0, 0>>)
      [] k = 8 -> IntegerLiteral(Tok(l, c), <<0, 0, 0, 0, 1, 0, 0, 0>>)
      [] k = 9 -> IntegerLiteral(Tok(l, c), <<52, 243, 4, 181, 0, 0, 0, 0>>)
      [] k = 10 -> MaxInt64Literal(l, c)
      [] k = 11 -> InfixExpression(Tok(l, c + 5), "-",
                       PrefixExpression(Tok(l, c), "-", MaxInt64Literal(l, c + 1)),
                       Num(l, c + 7, 1))
      [] OTHER -> IntegerLiteral(Tok(l, c), <<0, 0, 0, 0, 0, 0, 0, 64>>)

\* praise ChurchOfBeef(): prep r = <operand a> <operator c> <operand b> beef
IntProgram(a, b, c) ==
    InEntry(<<>>,
            <<VariableDeclaration(Tok(10, 3), Id(10, 8, "r"),
                  InfixExpression(Tok(10, 30), Operators[c],
                                  IntOperand(a, 10, 12), IntOperand(b, 10, 40)))>>)

\* Digit l (from 1) of a shape code in base 3: 0 if, 1 else, 2 while.
Shape(code, l) == (code \div (3 ^ (l - 1))) % 3

\* serve 7 inside the constructs of levels l .. k, each one's body going on with
\* io.preach("skipped") after the construct nested in it:
\*   if true: ... beef  /  if false: io.preach("then") else: ... beef  /
\*   feast while true: ... beef
RECURSIVE Nest(_, _, _)
Nest(l, k, code) ==
    IF l > k THEN <<ReturnStatement(Tok(30, 5), Num(30, 11, 7))>>
    ELSE LET inner == Block(20 + l, 5, Nest(l + 1, k, code)
                            \o <<Preach(20 + l, 40, <<Str(20 + l, 50, "skipped")>>)>>)
         IN  CASE Shape(code, l) = 0 ->
                    <<IfStatement(Tok(20 + l, 1), Bool(20 + l, 4, TRUE), inner, NoAlternative)>>
               [] Shape(code, l) = 1 ->
                    <<IfStatement(Tok(20 + l, 1), Bool(20 + l, 4, FALSE),
                                  Block(20 + l, 20,
                                        <<Preach(20 + l, 21, <<Str(20 + l, 31, "then")>>)>>),
                                  inner)>>
               [] OTHER ->
                    <<WhileLoop(Tok(20 + l, 1), Bool(20 + l, 4, TRUE), inner)>>

\* prep r = name(args), at line 10
PrepR(name, args) == VariableDeclaration(Tok(10, 3), Id(10, 8, "r"), Call(10, 12, name, args))

\* praise f(): <Nest> / io.preach("unreachable") / serve 8 beef
\* praise ChurchOfBeef(): prep r = f() / io.preach("after") beef
ReturnProgram(k, code) ==
    InEntry(<<Praise(4, "f", <<>>,
                     Nest(1, k, code)
                     \o <<Preach(40, 3, <<Str(40, 13, "unreachable")>>),
                          ReturnStatement(Tok(41, 3), Num(41, 9, 8))>>)>>,
            <<PrepR("f", <<>>), After1>>)

\* The bodies that end without a serve, by number.
NoReturnBody(k) ==
    CASE k = 1 -> <<Expr(Num(5, 3, 5))>>                          \* 5
      [] k = 2 -> <<VariableDeclaration(Tok(5, 3), Id(5, 8, "x"), Num(5, 12, 5))>>  \* prep x = 5
      [] k = 3 -> <<>>                                            \* (empty)
      [] k = 4 ->                                                 \* if true: 5 beef
            <<IfStatement(Tok(5, 3), Bool(5, 6, TRUE), Block(6, 5, <<Expr(Num(6, 5, 5))>>),
                          NoAlternative)>>
      [] k = 5 ->                                                 \* feast while false: 5 beef
            <<WhileLoop(Tok(5, 3), Bool(5, 15, FALSE), Block(6, 5, <<Expr(Num(6, 5, 5))>>))>>
      [] k = 6 -> <<Expr(Str(5, 3, "text"))>>                     \* "text"
      [] OTHER -> <<Praise(5, "inner", <<>>, <<ReturnStatement(Tok(6, 3), Num(6, 9, 1))>>)>>

\* praise f(): <body> beef / praise ChurchOfBeef(): prep r = f() / io.preach("after") beef
NoReturnProgram(k) ==
    InEntry(<<Praise(4, "f", <<>>, NoReturnBody(k))>>, <<PrepR("f", <<>>), After1>>)

\* praise f(): prep i = 0
\*   feast while i < 3: if i == a: serve i beef / i = i + 1 beef
\*   serve 99 beef
LoopReturnProgram(a) ==
    InEntry(<<Praise(4, "f", <<>>,
        <<VariableDeclaration(Tok(5, 3), Id(5, 8, "i"), Num(5, 12, 0)),
          WhileLoop(Tok(6, 3),
              InfixExpression(Tok(6, 17), "<", Id(6, 15, "i"), Num(6, 19, 3)),
              Block(7, 5,
                  <<IfStatement(Tok(7, 5),
                        InfixExpression(Tok(7, 10), "==", Id(7, 8, "i"), Num(7, 13, a)),
                        Block(7, 20, <<ReturnStatement(Tok(7, 20), Id(7, 26, "i"))>>),
                        NoAlternative),
                    AssignmentStatement(Tok(7, 40), Id(7, 40, "i"),
                        InfixExpression(Tok(7, 46), "+", Id(7, 44, "i"), Num(7, 48, 1)))>>)),
          ReturnStatement(Tok(7, 60), Num(7, 66, 99))>>)>>,
        <<PrepR("f", <<>>), After1>>)

\* count = count + 1, at line l
CountUp(l) ==
    AssignmentStatement(Tok(l, 3), Id(l, 3, "count"),
        InfixExpression(Tok(l, 17), "+", Id(l, 11, "count"), Num(l, 19, 1)))

\* name() n times, from line 11 on
Calls(name, n) == [j \in 1 .. n |-> Expr(Call(10 + j, 3, name, <<>>))]

\* prep count = 0, at line 2
PrepCount == VariableDeclaration(Tok(2, 1), Id(2, 6, "count"), Num(2, 14, 0))

\* variant 0:  prep count = 0 / praise increment(): count = count + 1 beef
\*             praise ChurchOfBeef(): increment() ... increment() beef
\* variant 1:  the same with increment() calling bump(), which does the assignment
\* variant 2:  praise make(): prep count = 0
\*               praise inc(): count = count + 1 / serve count beef / serve inc beef
\*             prep k = make() / praise ChurchOfBeef(): k() ... k() beef
CounterProgram(n, variant) ==
    CASE variant = 0 ->
            InEntry(<<PrepCount, Praise(3, "increment", <<>>, <<CountUp(4)>>)>>,
                    Calls("increment", n))
      [] variant = 1 ->
            InEntry(<<PrepCount, Praise(3, "bump", <<>>, <<CountUp(4)>>),
                      Praise(5, "increment", <<>>, <<Expr(Call(6, 3, "bump", <<>>))>>)>>,
                    Calls("increment", n))
      [] OTHER ->
            InEntry(<<Praise(3, "make", <<>>,
                        <<PrepCount,
                          Praise(5, "inc", <<>>,
                                 <<CountUp(6), ReturnStatement(Tok(7, 5), Id(7, 11, "count"))>>),
                          ReturnStatement(Tok(7, 30), Id(7, 36, "inc"))>>),
                      VariableDeclaration(Tok(7, 50), Id(7, 55, "k"), Call(7, 59, "make", <<>>))>>,
                    Calls("k", n))

\* variant 1:  praise f(): serve y beef / praise g(): prep y = 7 / serve f() beef
\*             praise ChurchOfBeef(): prep r = g() beef
\* variant 2:  praise f(): serve x beef
\*             praise g(): prep x = 1 / praise inner(): serve f() beef / serve inner beef
\*             prep k = g() / prep x = 2
\*             praise ChurchOfBeef(): prep r = k() beef
\* variant 3:  praise f(): serve y beef / praise g(y): serve f() beef
\*             praise ChurchOfBeef(): prep r = g(7) beef
ScopeProgram(variant) ==
    CASE variant = 1 ->
            InEntry(<<Praise(2, "f", <<>>, <<ReturnStatement(Tok(3, 3), Id(3, 9, "y"))>>),
                      Praise(4, "g", <<>>,
                             <<VariableDeclaration(Tok(5, 3), Id(5, 8, "y"), Num(5, 12, 7)),
                               ReturnStatement(Tok(6, 3), Call(6, 9, "f", <<>>))>>)>>,
                    <<PrepR("g", <<>>)>>)
      [] variant = 2 ->
            InEntry(<<Praise(2, "f", <<>>, <<ReturnStatement(Tok(3, 3), Id(3, 9, "x"))>>),
                      Praise(4, "g", <<>>,
                             <<VariableDeclaration(Tok(5, 3), Id(5, 8, "x"), Num(5, 12, 1)),
                               Praise(6, "inner", <<>>,
                                      <<ReturnStatement(Tok(7, 5), Call(7, 11, "f", <<>>))>>),
                               ReturnStatement(Tok(7, 30), Id(7, 36, "inner"))>>),
                      VariableDeclaration(Tok(7, 50), Id(7, 55, "k"), Call(7, 59, "g", <<>>)),
                      VariableDeclaration(Tok(7, 70), Id(7, 75, "x"), Num(7, 79, 2))>>,
                    <<PrepR("k", <<>>)>>)
      [] OTHER ->
            InEntry(<<Praise(2, "f", <<>>, <<ReturnStatement(Tok(3, 3), Id(3, 9, "y"))>>),
                      Praise(4, "g", <<Id(4, 10, "y")>>,
                             <<ReturnStatement(Tok(6, 3), Call(6, 9, "f", <<>>))>>)>>,
                    <<PrepR("g", <<Num(10, 20, 7)>>)>>)

\* praise factorial(n): if n <= 1: serve 1 beef / serve n * factorial(n - 1) beef
\* praise ChurchOfBeef(): prep r = factorial(a) beef
FactorialProgram(a) ==
    InEntry(<<Praise(2, "factorial", <<Id(2, 18, "n")>>,
        <<IfStatement(Tok(3, 3),
              InfixExpression(Tok(3, 8), "<=", Id(3, 6, "n"), Num(3, 11, 1)),
              Block(4, 5, <<ReturnStatement(Tok(4, 5), Num(4, 11, 1))>>),
              NoAlternative),
          ReturnStatement(Tok(6, 3),
              InfixExpression(Tok(6, 11), "*", Id(6, 9, "n"),
                  Call(6, 13, "factorial",
                       <<InfixExpression(Tok(6, 27), "-", Id(6, 25, "n"), Num(6, 29, 1))>>)))>>)>>,
        <<PrepR("factorial", <<Num(10, 30, a)>>)>>)

\* praise name(n): if n == 0: serve base beef / serve other(n - 1) beef, at line l
Parity(l, name, base, other) ==
    Praise(l, name, <<Id(l, 18, "n")>>,
        <<IfStatement(Tok(l + 1, 3),
              InfixExpression(Tok(l + 1, 8), "==", Id(l + 1, 6, "n"), Num(l + 1, 11, 0)),
              Block(l + 1, 20, <<ReturnStatement(Tok(l + 1, 20), Bool(l + 1, 26, base))>>),
              NoAlternative),
          ReturnStatement(Tok(l + 1, 40),
              Call(l + 1, 46, other,
                   <<InfixExpression(Tok(l + 1, 60), "-", Id(l + 1, 58, "n"),
                                     Num(l + 1, 62, 1))>>))>>)

\* isEven, which calls isOdd, is declared before isOdd.
\* variant 0: both at top level; variant 1: both inside ChurchOfBeef
SiblingProgram(a, variant) ==
    IF variant = 0
    THEN InEntry(<<Parity(2, "isEven", TRUE, "isOdd"), Parity(4, "isOdd", FALSE, "isEven")>>,
                 <<PrepR("isEven", <<Num(10, 30, a)>>)>>)
    ELSE InEntry(<<>>,
                 <<Parity(2, "isEven", TRUE, "isOdd"), Parity(4, "isOdd", FALSE, "isEven"),
                   PrepR("isEven", <<Num(10, 30, a)>>)>>)

\* Programs about main() and the builtins, by number.
MiscProgram(k) ==
    CASE k = 1 ->   \* prep ChurchOfBeef = 5
            Program(<<Wrangle, VariableDeclaration(Tok(2, 1), Id(2, 6, "ChurchOfBeef"),
                                                   Num(2, 21, 5))>>)
      [] k = 2 ->   \* wrangle io
            Program(<<Wrangle>>)
      [] k = 3 ->   \* praise f(a, b): ... beef / praise ChurchOfBeef(): f(1) beef
            InEntry(<<ArgsDecl(2)>>, <<Expr(Call(10, 3, "f", <<Num(10, 23, 1)>>)), After1>>)
      [] k = 4 ->   \* ... / prep z = 1 / 0
            AtTop(<<>>, <<VariableDeclaration(Tok(10, 1), Id(10, 6, "z"),
                              InfixExpression(Tok(10, 12), "/", Num(10, 10, 1),
                                              Num(10, 14, 0)))>>)
      [] k = 5 ->   \* praise ChurchOfBeef(): prep answer = io.input("? ")
                    \*   if answer == "beef": io.preach("Braised be!")
                    \*   else: io.preach("removed") beef beef
            InEntry(<<>>,
                <<VariableDeclaration(Tok(10, 3), Id(10, 8, "answer"),
                      FunctionCall(Tok(10, 25),
                          MemberAccessExpression(Tok(10, 19), Id(10, 17, "io"),
                                                 Id(10, 20, "input")),
                          <<Str(10, 26, "? ")>>)),
                  IfStatement(Tok(11, 3),
                      InfixExpression(Tok(11, 13), "==", Id(11, 6, "answer"),
                                      Str(11, 16, "beef")),
                      Block(12, 5, <<Preach(12, 5, <<Str(12, 15, "Braised be!")>>)>>),
                      Block(14, 5, <<Preach(14, 5, <<Str(14, 15, "removed")>>)>>))>>)
      [] k = 6 ->   \* wrangle beefmath / praise ChurchOfBeef(): io.preach(io.input()) beef
            Program(<<WrangleStatement(Tok(1, 1), Id(1, 9, "beefmath")), Wrangle,
                      Praise(8, "ChurchOfBeef", <<>>,
                          <<Preach(10, 3,
                                <<FunctionCall(Tok(10, 21),
                                      MemberAccessExpression(Tok(10, 15), Id(10, 13, "io"),
                                                             Id(10, 16, "input")),
                                      <<>>)>>)>>)>>)
      [] OTHER ->   \* praise add(x, y): serve x + y beef
                    \* praise ChurchOfBeef(): io.preach(add(2, 3)) beef
            InEntry(<<Praise(2, "add", <<Id(2, 12, "x"), Id(2, 15, "y")>>,
                        <<ReturnStatement(Tok(3, 3),
                              InfixExpression(Tok(3, 11), "+", Id(3, 9, "x"),
                                              Id(3, 13, "y")))>>)>>,
                    <<Preach(10, 3, <<Call(10, 13, "add", <<Num(10, 17, 2),
                                                            Num(10, 20, 3)>>)>>)>>)

\* praise down(n): if n < 1: serve 0 beef / prep r = down(n - 1) / serve n beef
Down ==
    Praise(3, "down", <<Id(3, 13, "n")>>,
        <<IfStatement(Tok(4, 3),
              InfixExpression(Tok(4, 8), "<", Id(4, 6, "n"), Num(4, 10, 1)),
              Block(4, 20, <<ReturnStatement(Tok(4, 20), Num(4, 26, 0))>>),
              NoAlternative),
          VariableDeclaration(Tok(5, 3), Id(5, 8, "r"),
              Call(5, 12, "down",
                   <<InfixExpression(Tok(5, 19), "-", Id(5, 17, "n"), Num(5, 21, 1))>>)),
          ReturnStatement(Tok(6, 3), Id(6, 9, "n"))>>)

\* prep name = v, at line l of the top level
Prep(l, name, v) == VariableDeclaration(Tok(l, 1), Id(l, 6, name), Num(l, 6 + Len(name) + 3, v))

\* Programs whose parameters meet variables of the same name, by number; each
\* ends with io.preach(x) or io.preach(n), the outer variable.
\* 1:  prep x = 1 / praise f(x): serve x beef
\*     praise ChurchOfBeef(): prep r = f(2) / io.preach(x) beef
\* 2:  the same with f(y): serve y beef
\* 3:  prep x = 1 / praise make(): praise inner(x): serve x beef / serve inner beef
\*     prep k = make() / praise ChurchOfBeef(): prep r = k(2) / io.preach(x) beef
\* 4:  prep n = 9 / praise down(n) ... / praise ChurchOfBeef(): prep r = down(a) / io.preach(n) beef
\* 5:  prep x = 1 / praise down(n) ... / praise ChurchOfBeef(): prep r = down(a) / io.preach(x) beef
ShadowProgram(k, a) ==
    CASE k = 1 ->
            InEntry(<<Prep(2, "x", 1),
                      Praise(3, "f", <<Id(3, 10, "x")>>,
                             <<ReturnStatement(Tok(4, 3), Id(4, 9, "x"))>>)>>,
                    <<PrepR("f", <<Num(10, 14, 2)>>), Preach(11, 3, <<Id(11, 13, "x")>>)>>)
      [] k = 2 ->
            InEntry(<<Prep(2, "x", 1),
                      Praise(3, "f", <<Id(3, 10, "y")>>,
                             <<ReturnStatement(Tok(4, 3), Id(4, 9, "y"))>>)>>,
                    <<PrepR("f", <<Num(10, 14, 2)>>), Preach(11, 3, <<Id(11, 13, "x")>>)>>)
      [] k = 3 ->
            InEntry(<<Prep(2, "x", 1),
                      Praise(3, "make", <<>>,
                             <<Praise(4, "inner", <<Id(4, 16, "x")>>,
                                      <<ReturnStatement(Tok(5, 5), Id(5, 11, "x"))>>),
                               ReturnStatement(Tok(6, 30), Id(6, 36, "inner"))>>),
                      VariableDeclaration(Tok(7, 50), Id(7, 55, "k"), Call(7, 59, "make", <<>>))>>,
                    <<PrepR("k", <<Num(10, 14, 2)>>), Preach(11, 3, <<Id(11, 13, "x")>>)>>)
      [] k = 4 ->
            InEntry(<<Prep(2, "n", 9), Down>>,
                    <<PrepR("down", <<Num(10, 17, a)>>), Preach(11, 3, <<Id(11, 13, "n")>>)>>)
      [] OTHER ->
            InEntry(<<Prep(2, "x", 1), Down>>,
                    <<PrepR("down", <<Num(10, 17, a)>>), Preach(11, 3, <<Id(11, 13, "x")>>)>>)

\* prep name = other, at line l of a body
PrepFrom(l, name, other) == VariableDeclaration(Tok(l, 5), Id(l, 10, name), Id(l, 14, other))

\* praise local(): prep t = 5 / serve t beef
Local ==
    Praise(3, "local", <<>>,
           <<VariableDeclaration(Tok(4, 3), Id(4, 8, "t"), Num(4, 12, 5)),
             ReturnStatement(Tok(5, 3), Id(5, 9, "t"))>>)

\* Programs that create a binding inside a body, by number.
\* 1:  praise ChurchOfBeef(): if true: prep v = 5 beef / io.preach(v) beef
\* 2:  praise ChurchOfBeef(): if false: prep v = 5 else: prep v = 6 beef / io.preach(v) beef
\* 3:  praise ChurchOfBeef(): prep i = 0
\*         feast while i < a: prep v = i / i = i + 1 beef / io.preach(v) beef
\* 4:  praise local(): prep t = 5 / serve t beef
\*     praise ChurchOfBeef(): prep r = local() / io.preach(t) beef
\* 5:  praise local(): prep t = 5 / serve t beef / praise check(): serve t beef
\*     praise ChurchOfBeef(): local() / prep r = check() beef
VisibleProgram(k, a) ==
    CASE k = 1 ->
            InEntry(<<>>,
                    <<IfStatement(Tok(10, 3), Bool(10, 6, TRUE),
                                  Block(11, 5, <<Prep(11, "v", 5)>>), NoAlternative),
                      Preach(13, 3, <<Id(13, 13, "v")>>)>>)
      [] k = 2 ->
            InEntry(<<>>,
                    <<IfStatement(Tok(10, 3), Bool(10, 6, FALSE),
                                  Block(11, 5, <<Prep(11, "v", 5)>>),
                                  Block(12, 5, <<Prep(12, "v", 6)>>)),
                      Preach(13, 3, <<Id(13, 13, "v")>>)>>)
      [] k = 3 ->
            InEntry(<<>>,
                    <<VariableDeclaration(Tok(9, 3), Id(9, 8, "i"), Num(9, 12, 0)),
                      WhileLoop(Tok(10, 3),
                          InfixExpression(Tok(10, 17), "<", Id(10, 15, "i"), Num(10, 19, a)),
                          Block(11, 5, <<PrepFrom(11, "v", "i"), Increase(12, "i", 1)>>)),
                      Preach(13, 3, <<Id(13, 13, "v")>>)>>)
      [] k = 4 ->
            InEntry(<<Local>>,
                    <<PrepR("local", <<>>), Preach(13, 3, <<Id(13, 13, "t")>>)>>)
      [] OTHER ->
            InEntry(<<Local,
                      Praise(6, "check", <<>>, <<ReturnStatement(Tok(7, 3), Id(7, 9, "t"))>>)>>,
                    <<Expr(Call(9, 3, "local", <<>>)), PrepR("check", <<>>)>>)

\* The program of a scenario.
ProgramOf(sc) ==
    CASE sc.name = "error" ->
            IF sc.b = 0 THEN InEntry(<<>>, ErrStmts(sc.a) \o <<After1>>)
            ELSE AtTop(<<>>, ErrStmts(sc.a) \o <<After1>>)
      [] sc.name = "args" ->
            InEntry(<<ArgsDecl(sc.a)>>, ArgsStmts(sc.a, sc.b, sc.c) \o <<After1>>)
      [] sc.name = "return" -> ReturnProgram(sc.a, sc.b)
      [] sc.name = "noreturn" -> NoReturnProgram(sc.a)
      [] sc.name = "loopreturn" -> LoopReturnProgram(sc.a)
      [] sc.name = "counter" -> CounterProgram(sc.a, sc.b)
      [] sc.name = "scope" -> ScopeProgram(sc.a)
      [] sc.name = "factorial" -> FactorialProgram(sc.a)
      [] sc.name = "sibling" -> SiblingProgram(sc.a, sc.b)
      [] sc.name = "misc" -> MiscProgram(sc.a)
      [] sc.name = "arity" -> ArityProgram(sc.a, sc.b)
      [] sc.name = "expr" -> ExprProgram(sc.a, sc.b, sc.c)
      [] sc.name = "int" -> IntProgram(sc.a, sc.b, sc.c)
      [] sc.name = "bang" -> BangProgram(sc.a, sc.b)
      [] sc.name = "if" -> IfProgram(sc.a, sc.b)
      [] sc.name = "while" -> WhileProgram(sc.a, sc.b, sc.c)
      [] sc.name = "member" -> MemberProgram(sc.a, sc.b)
      [] sc.name = "module" -> ModuleProgram(sc.a)
      [] sc.name = "entry" -> EntryProgram(sc.a)
      [] sc.name = "shadow" -> ShadowProgram(sc.a, sc.b)
      [] sc.name = "visible" -> VisibleProgram(sc.a, sc.b)
      [] OTHER ->   \* "syntax": what the parser built before it gave up
            Program(<<Wrangle>>)

\* p.Errors() for a scenario: only the "syntax" inputs have any.
ErrorsOf(sc) ==
    IF sc.name # "syntax" THEN <<>>
    ELSE IF sc.a = 1 THEN <<"expected next token to be BEEF, got EOF instead">>
    ELSE <<"no prefix parse function for token type BEEF",
           "expected next token to be COLON, got IDENT instead">>

Scenarios ==
    [name : {"error"}, a : 1 .. 19, b : {0, 1}, c : {0}]
    \cup {sc \in [name : {"args"}, a : 0 .. MaxArgs, b : 0 .. MaxArgs, c : {0, 1}] : sc.b <= sc.a}
    \cup {sc \in [name : {"return"}, a : 0 .. MaxNest, b : 0 .. (3 ^ MaxNest - 1), c : {0}] :
             sc.b < 3 ^ sc.a}
    \cup [name : {"noreturn"}, a : 1 .. 7, b : {0}, c : {0}]
    \cup [name : {"loopreturn"}, a : 0 .. MaxIter, b : {0}, c : {0}]
    \cup [name : {"counter"}, a : 0 .. MaxCalls, b : 0 .. 2, c : {0}]
    \cup [name : {"scope"}, a : 1 .. 3, b : {0}, c : {0}]
    \cup [name : {"factorial"}, a : 0 .. MaxFact, b : {0}, c : {0}]
    \cup [name : {"sibling"}, a : 0 .. MaxFact, b : {0, 1}, c : {0}]
    \cup [name : {"misc"}, a : 1 .. 7, b : {0}, c : {0}]
    \cup [name : {"syntax"}, a : 1 .. 2, b : {0}, c : {0}]
    \cup [name : {"arity"}, a : 0 .. MaxArgs, b : 0 .. MaxArgs, c : {0}]
    \cup [name : {"expr"}, a : 1 .. 14, b : 1 .. 14, c : 1 .. Len(Operators)]
    \cup [name : {"int"}, a : 1 .. 12, b : 1 .. 12, c : 1 .. Len(Operators)]
    \cup [name : {"bang"}, a : 1 .. 16, b : 1 .. 2, c : {0}]
    \cup [name : {"if"}, a : 1 .. 16, b : 0 .. 2, c : {0}]
    \cup [name : {"while"}, a : 0 .. MaxIter, b : 0 .. 2, c : 0 .. 1]
    \cup [name : {"member"}, a : 1 .. 17, b : 1 .. Len(MemberNames), c : {0}]
    \cup [name : {"module"}, a : 1 .. 6, b : {0}, c : {0}]
    \cup [name : {"entry"}, a : 1 .. 5, b : {0}, c : {0}]
    \cup {sc \in [name : {"shadow"}, a : 1 .. 5, b : 0 .. MaxCalls, c : {0}] :
             sc.a <= 3 => sc.b = 0}
    \cup {sc \in [name : {"visible"}, a : 1 .. 5, b : 0 .. MaxIter, c : {0}] :
             sc.a # 3 => sc.b = 0}

-----------------------------------------------------------------------------
(* The specification *)

Init ==
    /\ scenario \in Scenarios
    /\ program = ProgramOf(scenario)
    /\ errors = ErrorsOf(scenario)
    /\ pc = "parse"
    /\ exitStatus = -1
    /\ stack = <<>>
    /\ ret = nil
    /\ envs = <<>>
    /\ nobj = 0
    /\ stdout = <<>>
    /\ stdin = <<"beef">>
    /\ trace = <<>>
    /\ fuel = MaxFuel
    /\ abort = ""

Next ==
    \/ ReportParserErrors
    \/ EvaluateProgram
    \/ CallEntryPoint
    \/ EntryPointNotAFunction
    \/ NoEntryPoint
    \/ ReturnFromMain
    \/ ExitOnPanic
    \/ evalProgram
    \/ evalLiteral
    \/ evalIdentifier
    \/ evalPrefixNode
    \/ evalInfixNode
    \/ evalVariableDeclaration
    \/ evalAssignmentStatement
    \/ evalExpressionStatement
    \/ evalBlockStatement
    \/ evalIfStatement
    \/ evalWhileLoop
    \/ evalFunctionDeclaration
    \/ evalReturnStatement
    \/ evalFunctionCall
    \/ evalExpressions
    \/ evalWrangleStatement
    \/ evalMemberAccessExpression

Spec == Init /\ [][Next]_vars

-----------------------------------------------------------------------------
(* Reading the history *)

\* The same object: Go's pointer identity on what Eval returns.  An Integer,
\* String or Error is allocated where it is produced and then only passed
\* along, so two occurrences are the same object exactly when they agree in
\* content.
RECURSIVE ValEq(_, _)
ValEq(a, b) ==
    /\ Type(a) = Type(b)
    /\ CASE Type(a) \in {"INTEGER", "STRING", "BOOLEAN"} -> a.Value = b.Value
         [] Type(a) \in {"NULL", "nil"} -> TRUE
         [] Type(a) \in {"FUNCTION", "BUILTIN", "MODULE"} -> a.id = b.id
         [] Type(a) = "ERROR" ->
                a.Message = b.Message /\ a.Line = b.Line /\ a.Column = b.Column
         [] Type(a) = "RETURN_VALUE" -> ValEq(a.Value, b.Value)
         [] OTHER -> FALSE

\* The returns of the calls of Eval that call number i made itself.
ChildExits(i) ==
    {c \in 1 .. Len(trace) : trace[c].k = "exit" /\ trace[c].parent = i}

\* Every call and return is the newest entry of trace in the state right after
\* it, so a property of every entry is stated on the newest one.
Newest == trace[Len(trace)]

\* What name is bound to, looked up from environment env: nil when unbound.
Bound(env, name) == Get(envs, env, name).val

\* The process has exited, and not through a panic.
Exited == pc = "exit" /\ abort = ""

\* The environment the entry point's body ran in: the one main() created last.
EntryEnv == CHOOSE e \in 1 .. Len(envs) :
                \E j \in 1 .. Len(trace) :
                    trace[j].parent = 0 /\ trace[j].kind = "BlockStatement"
                    /\ trace[j].env = e

EntryRan == \E j \in 1 .. Len(trace) : trace[j].parent = 0 /\ trace[j].kind = "BlockStatement"

-----------------------------------------------------------------------------
(* Error propagation *)

\* The node kinds that have sub-expressions.
CompositeKinds ==
    {"PrefixExpression", "InfixExpression", "VariableDeclaration",
     "AssignmentStatement", "BlockStatement", "IfStatement", "WhileLoop",
     "ReturnStatement", "FunctionCall", "MemberAccessExpression",
     "ExpressionStatement"}

\* C1: when the evaluation of a node of any composite kind returns, and one of
\* the sub-evaluations it made returned an Error, the node returns that same
\* Error.
C1_ErrorPropagatesThroughEveryNode ==
    (Len(trace) > 0 /\ Newest.k = "exit" /\ Newest.kind \in CompositeKinds)
    => \A c \in ChildExits(Newest.self) :
           isError(trace[c].val) => ValEq(Newest.val, trace[c].val)

\* The evaluation of the top-level statements returned an Error to main().
TopLevelError ==
    \E j \in 1 .. Len(trace) :
        trace[j].k = "exit" /\ trace[j].kind = "Program" /\ isError(trace[j].val)

\* The evaluation of the entry point's body returned an Error to main().
EntryPointError ==
    \E j \in 1 .. Len(trace) :
        /\ trace[j].k = "exit" /\ trace[j].parent = 0
        /\ trace[j].kind = "BlockStatement" /\ isError(trace[j].val)

\* The Errors that evaluation returned to main().
ErrorsAtMain ==
    {j \in 1 .. Len(trace) :
        /\ trace[j].k = "exit" /\ trace[j].parent = 0 /\ isError(trace[j].val)}

\* Error number j of trace was written out for the user.
Reported(j) ==
    \E i \in 1 .. Len(stdout) :
        Type(stdout[i].arg) = "ERROR" /\ ValEq(stdout[i].arg, trace[j].val)

\* C2: an Error returned by the top-level statements or by the entry point's
\* body stops the run: the entry point is not invoked after a top-level Error,
\* and the process ends reporting the Error with a non-zero status.
C2_ErrorAtTopLevelStopsTheRun ==
    /\ TopLevelError => ~EntryRan
    /\ (pc = "exit" /\ (TopLevelError \/ EntryPointError))
       => (exitStatus # 0 /\ \A j \in ErrorsAtMain : Reported(j))

\* C3: once the condition or the body of a while loop has returned an Error,
\* the loop evaluates nothing more and returns that Error.
C3_WhileStopsOnError ==
    Len(trace) > 0 =>
        /\ (Newest.k = "enter" /\ Newest.parent # 0
            /\ trace[Newest.parent].kind = "WhileLoop")
           => \A c \in ChildExits(Newest.parent) : ~isError(trace[c].val)
        /\ (Newest.k = "exit" /\ Newest.kind = "WhileLoop")
           => \A c \in ChildExits(Newest.self) :
                  isError(trace[c].val) => ValEq(Newest.val, trace[c].val)

\* The returns of the argument evaluations of call number i: the calls of Eval
\* it made in its own environment, but for the first, which is the callee.
ArgumentExits(i) ==
    {c \in ChildExits(i) : trace[c].self # i + 1 /\ trace[c].env = trace[i].env}

\* C4: once an argument of a function call has returned an Error, the call
\* evaluates nothing more (no later argument, no body) and returns that Error
\* (so no builtin's result either).
C4_ArgumentErrorAbortsCall ==
    Len(trace) > 0 =>
        /\ (Newest.k = "enter" /\ Newest.parent # 0
            /\ trace[Newest.parent].kind = "FunctionCall")
           => \A c \in ArgumentExits(Newest.parent) : ~isError(trace[c].val)
        /\ (Newest.k = "exit" /\ Newest.kind = "FunctionCall")
           => \A c \in ArgumentExits(Newest.self) :
                  isError(trace[c].val) => ValEq(Newest.val, trace[c].val)

\* C5: no binding of any environment holds an Error or a ReturnValue.
C5_NoCarrierIsStored ==
    \A e \in 1 .. Len(envs) :
        \A name \in DOMAIN envs[e].store :
            Type(envs[e].store[name]) \notin {"ERROR", "RETURN_VALUE"}

-----------------------------------------------------------------------------
(* Return *)

\* What the program printed: the strings io.preach was given, in order.
Preached == [i \in 1 .. Len(stdout) |-> stdout[i].arg.Value]

\* Variable r of the entry point, which the programs bind to the result of the
\* call under test, is bound to v.
ResultIs(v) ==
    /\ Exited
    /\ EntryRan
    /\ "r" \in DOMAIN envs[EntryEnv].store
    /\ ValEq(envs[EntryEnv].store["r"], v)

\* C6: a return statement yields its value wrapped in a ReturnValue; the moment
\* a ReturnValue comes out of a statement, the block, if or while around it
\* returns next, evaluating nothing more, and passes the ReturnValue on as it
\* is, and the function call (or the program) around those returns its value.
\* So the calls of the "return" and "loopreturn" programs yield the returned
\* value and nothing after the return is printed.
C6_ReturnUnwindsToTheCall ==
    /\ Len(trace) > 1 =>
        LET e == Newest
            prev == trace[Len(trace) - 1]
        IN  (prev.k = "exit" /\ Type(prev.val) = "RETURN_VALUE" /\ prev.parent # 0)
            => /\ e.k = "exit"
               /\ e.self = prev.parent
               /\ e.kind \in {"BlockStatement", "IfStatement", "WhileLoop",
                              "FunctionCall", "Program"}
               /\ IF e.kind \in {"FunctionCall", "Program"}
                  THEN ValEq(e.val, prev.val.Value)
                  ELSE ValEq(e.val, prev.val)
    /\ (Len(trace) > 0 /\ Newest.k = "exit" /\ Newest.kind = "ReturnStatement")
       => \E c \in ChildExits(Newest.self) :
              ValEq(Newest.val, ReturnValue(trace[c].val))
    /\ (Exited /\ scenario.name = "return")
       => ResultIs(Integer(Int64(7))) /\ Preached = <<"after">>
    /\ (Exited /\ scenario.name = "loopreturn")
       => ResultIs(Integer(Int64(IF scenario.a < 3 THEN scenario.a ELSE 99)))

\* A return inside a while inside an else inside an if has ended the call.
C6_Witness ==
    /\ scenario.name = "return" /\ scenario.a = 3 /\ scenario.b = 21
    /\ ResultIs(Integer(Int64(7)))
    /\ \E j \in 1 .. Len(trace) :
           /\ trace[j].k = "exit" /\ trace[j].kind = "WhileLoop"
           /\ Type(trace[j].val) = "RETURN_VALUE"

-----------------------------------------------------------------------------
(* Closures and scoping *)

\* The environments that bind name themselves.
Binders(name) == {e \in 1 .. Len(envs) : name \in DOMAIN envs[e].store}

\* C7: in the counter programs, count stays bound in the one scope that declared
\* it (the global scope when declared at top level), no call creates a local
\* count, and after n calls of the incrementing function count is n.
C7_AssignmentRebindsOuterBinding ==
    scenario.name = "counter" =>
        /\ Cardinality(Binders("count")) <= 1
        /\ (scenario.b \in {0, 1} /\ Binders("count") # {}) => Binders("count") = {GlobalEnv}
        /\ Exited => \E e \in Binders("count") :
                         ValEq(envs[e].store["count"], Integer(Int64(scenario.a)))

\* Three calls of increment() have left the global count at 3.
C7_Witness ==
    /\ scenario.name = "counter" /\ scenario.a = 3 /\ scenario.b = 0
    /\ Exited
    /\ Binders("count") = {GlobalEnv}
    /\ ValEq(envs[GlobalEnv].store["count"], Integer(Int64(3)))

\* The function that call number i of trace called: what its first
\* sub-evaluation, the callee's, returned.
Callee(i) == trace[CHOOSE c \in ChildExits(i) : trace[c].self = i + 1].val

\* The Error an unbound y gives at line 3, column 9, where f reads it.
NotFoundY == newError(Tok(3, 9), "identifier not found: y")

\* C8: the body of every call of a Function is evaluated in an environment that
\* did not exist when the call began and whose outer environment is the one the
\* function captured, which is the one its declaration was evaluated in.  So f
\* does not find y of its caller g (a local of g or a parameter of g), and reads
\* the x of the scope it was declared in, not the x of its caller.
C8_LexicalScoping ==
    /\ (Len(trace) > 0 /\ Newest.k = "enter" /\ Newest.kind = "BlockStatement"
        /\ Newest.parent # 0 /\ trace[Newest.parent].kind = "FunctionCall")
       => LET call == trace[Newest.parent]
              fn == Callee(call.self)
          IN  /\ Newest.env > call.nenv
              /\ Newest.env = Len(envs)
              /\ envs[Newest.env].outer = fn.Env
              /\ \E d \in 1 .. Len(trace) :
                     /\ trace[d].k = "exit" /\ trace[d].kind = "FunctionDeclaration"
                     /\ ValEq(trace[d].val, fn)
                     /\ trace[d].env = fn.Env
    /\ (Exited /\ scenario.name = "scope")
       => IF scenario.a = 2 THEN ResultIs(Integer(Int64(2))) ELSE ResultIs(NotFoundY)

\* f, called from inside g's closure where x is 1, has read the global x, 2.
C8_Witness ==
    /\ scenario.name = "scope" /\ scenario.a = 2
    /\ ResultIs(Integer(Int64(2)))
    /\ \E e \in Binders("x") : e # GlobalEnv /\ ValEq(envs[e].store["x"], Integer(Int64(1)))

RECURSIVE Factorial(_)
Factorial(n) == IF n <= 1 THEN 1 ELSE n * Factorial(n - 1)

BodyExits(i) == {c \in ChildExits(i) : trace[c].kind = "BlockStatement"}

\* C10: no function call returns a ReturnValue; a call whose body returned a
\* ReturnValue returns the value in it, and a call whose body returned anything
\* else but an Error returns NULL.
C10_CallResultIsUnwrapped ==
    (Len(trace) > 0 /\ Newest.k = "exit" /\ Newest.kind = "FunctionCall")
    => /\ Type(Newest.val) # "RETURN_VALUE"
       /\ \A c \in BodyExits(Newest.self) :
              IF Type(trace[c].val) = "RETURN_VALUE"
              THEN ValEq(Newest.val, trace[c].val.Value)
              ELSE ~isError(trace[c].val) => ValEq(Newest.val, NULL)

\* f(), whose body is the expression 5 and no return, has returned NULL.
C10_Witness ==
    /\ scenario.name = "noreturn" /\ scenario.a = 1
    /\ ResultIs(NULL)
    /\ \E j \in 1 .. Len(trace) :
           /\ trace[j].k = "exit" /\ trace[j].kind = "BlockStatement"
           /\ trace[j].parent # 0
           /\ ValEq(trace[j].val, Integer(Int64(5)))

-----------------------------------------------------------------------------
(* Calls: arity *)

\* The n-th smallest number of the set S: with S a set of returns, the n-th of
\* them in the order they happened.
Nth(S, n) == CHOOSE x \in S : Cardinality({y \in S : y < x}) = n - 1

\* The values of the arguments of call number i, in order.
ArgumentValues(i) ==
    [n \in 1 .. Cardinality(ArgumentExits(i)) |-> trace[Nth(ArgumentExits(i), n)].val]

C11_WitnessSurplus ==
    /\ scenario.name = "arity" /\ scenario.a = 1 /\ scenario.b = 3
    /\ Exited
    /\ \E e \in Binders("a") :
           DOMAIN envs[e].store = {"a"} /\ ValEq(envs[e].store["a"], Integer(Int64(1)))

-----------------------------------------------------------------------------
(* Identifiers *)

\* The newest event is the return of an identifier that its environment chain
\* does not bind.
UnboundIdentifierReturned ==
    /\ Len(trace) > 0
    /\ Newest.k = "exit" /\ Newest.kind = "Identifier"
    /\ ~Get(envs, Newest.env, Newest.name).ok

\* C12: an identifier that no environment of its chain binds evaluates to the
\* Error "identifier not found: <name>" at the identifier's line and column,
\* a bound one to its binding; and evaluating an identifier changes no
\* environment.
C12_UnboundIdentifierIsAnError ==
    /\ [](Len(trace) > 0 /\ Newest.k = "exit" /\ Newest.kind = "Identifier"
          => LET g == Get(envs, Newest.env, Newest.name)
             IN  IF g.ok THEN ValEq(Newest.val, g.val)
                 ELSE /\ isError(Newest.val)
                      /\ Newest.val.Message = "identifier not found: " \o Newest.name
                      /\ Newest.val.Line = Newest.Token.Line
                      /\ Newest.val.Column = Newest.Token.Column)
    /\ [][(Running /\ Top.node.kind = "Identifier") => envs' = envs]_vars

\* An unbound identifier inside a function body, whose chain has two
\* environments, has returned.
C12_Witness ==
    /\ UnboundIdentifierReturned
    /\ envs[Newest.env].outer # 0

-----------------------------------------------------------------------------
(* Infix operators *)

\* The newest event is the return of an infix expression whose two operands
\* both evaluated, neither to an Error.
InfixApplied ==
    /\ Len(trace) > 0
    /\ Newest.k = "exit" /\ Newest.kind = "InfixExpression"
    /\ Cardinality(ChildExits(Newest.self)) = 2
    /\ \A c \in ChildExits(Newest.self) : ~isError(trace[c].val)

\* The operands of the infix expression that has just returned.
LeftOperand == trace[Nth(ChildExits(Newest.self), 1)].val
RightOperand == trace[Nth(ChildExits(Newest.self), 2)].val

\* The operators a type's values support between themselves, == and != apart.
Supported(type) ==
    CASE type = "INTEGER" -> {"+", "-", "*", "/", "%", "<", ">", "<=", ">="}
      [] type = "STRING" -> {"+"}
      [] OTHER -> {}

\* The Error with message kind: T1 op T2 at the operator's token.
OperatorError(kind) ==
    newError(Newest.Token, kind \o ": " \o Type(LeftOperand) \o " " \o Newest.name
                           \o " " \o Type(RightOperand))

\* C13: an infix operator other than == and != applied to operands of two
\* different types yields the Error "type mismatch: T1 op T2", applied to two
\* operands of one type that does not support it the Error "unknown operator:
\* T1 op T2", both at the operator token's line and column; 5 + true and
\* "beef" + 5 give the two messages the documentation shows.
C13_TypeMismatchAndUnknownOperator ==
    /\ (InfixApplied /\ Newest.name \notin {"==", "!="})
       => /\ Type(LeftOperand) # Type(RightOperand)
             => Newest.val = OperatorError("type mismatch")
          /\ (Type(LeftOperand) = Type(RightOperand)
              /\ Newest.name \notin Supported(Type(LeftOperand)))
             => Newest.val = OperatorError("unknown operator")
          /\ (Type(LeftOperand) = Type(RightOperand)
              /\ Newest.name \in Supported(Type(LeftOperand)))
             => ~isError(Newest.val)
    /\ (InfixApplied /\ scenario.name = "expr" /\ scenario.c = 1)
       => /\ (scenario.a = 1 /\ scenario.b = 3)
             => Newest.val.Message = "type mismatch: INTEGER + BOOLEAN"
          /\ (scenario.a = 5 /\ scenario.b = 1)
             => Newest.val.Message = "type mismatch: STRING + INTEGER"
          /\ (scenario.a = 3 /\ scenario.b = 4)
             => Newest.val.Message = "unknown operator: BOOLEAN + BOOLEAN"

\* "beef" - "meat" has returned an Error.
C13_Witness ==
    /\ InfixApplied
    /\ Type(LeftOperand) = "STRING" /\ Type(RightOperand) = "STRING"
    /\ Newest.name = "-"
    /\ isError(Newest.val)

\* 5 + true has returned an Error.
C13_WitnessMismatch ==
    /\ InfixApplied
    /\ Type(LeftOperand) = "INTEGER" /\ Type(RightOperand) = "BOOLEAN"
    /\ Newest.name = "+"
    /\ isError(Newest.val)

\* Whether two operands are equal as the language defines it: Integers and
\* Strings by value, Booleans by truth value, null with null, every other
\* object with itself only, and never two operands of different types.
EqualOperands(left, right) ==
    /\ Type(left) = Type(right)
    /\ CASE Type(left) \in {"INTEGER", "STRING", "BOOLEAN"} -> left.Value = right.Value
         [] Type(left) = "NULL" -> TRUE
         [] OTHER -> left.id = right.id

\* C14: == and != applied to two operands that are not Errors yield a Boolean,
\* never an Error: == yields TRUE exactly when the operands are equal (Integers
\* and Strings by value, Booleans by truth value, null with null, any other
\* object with itself only, operands of different types never), and != yields
\* the opposite; every Boolean or Null that an evaluation returns is one of the
\* singletons TRUE, FALSE and NULL.
C14_EqualityNeverFails ==
    /\ (InfixApplied /\ Newest.name \in {"==", "!="})
       => /\ Type(Newest.val) = "BOOLEAN"
          /\ Newest.val.Value = IF Newest.name = "=="
                                THEN EqualOperands(LeftOperand, RightOperand)
                                ELSE ~EqualOperands(LeftOperand, RightOperand)
    /\ (Len(trace) > 0 /\ Newest.val # nil)
       => /\ Type(Newest.val) = "BOOLEAN" => Newest.val.id \in {TRUE_.id, FALSE_.id}
          /\ Type(Newest.val) = "NULL" => Newest.val.id = NULL.id
    /\ (InfixApplied /\ scenario.name = "expr" /\ scenario.c = 10)
       => /\ (scenario.a = 8 /\ scenario.b = 8) => Newest.val = TRUE_
          /\ (scenario.a = 8 /\ scenario.b = 9) => Newest.val = FALSE_
          /\ (scenario.a = 10 /\ scenario.b = 10) => Newest.val = TRUE_
          /\ (scenario.a = 7 /\ scenario.b = 14) => Newest.val = TRUE_
          /\ (scenario.a = 4 /\ scenario.b = 7) => Newest.val = FALSE_

\* 5 == true has returned FALSE.
C14_Witness ==
    /\ InfixApplied
    /\ Newest.name = "=="
    /\ Type(LeftOperand) = "INTEGER" /\ Type(RightOperand) = "BOOLEAN"
    /\ Newest.val = FALSE_

\* The computed Booleans (5 < 7) and !true have been compared with !=.
C14_WitnessComputed ==
    /\ InfixApplied
    /\ scenario.name = "expr" /\ scenario.a = 12 /\ scenario.b = 13
    /\ Newest.name = "!="
    /\ Newest.val = TRUE_

-----------------------------------------------------------------------------
(* Integer arithmetic *)

\* The newest event is the return of an infix expression on two Integers, the
\* right one not zero.
IntegersApplied ==
    /\ InfixApplied
    /\ Type(LeftOperand) = "INTEGER" /\ Type(RightOperand) = "INTEGER"
    /\ RightOperand.Value # Zero64

\* An int64 of magnitude below 2^15, and the integer it stands for.
IsSmall(v) ==
    /\ Magnitude(v)[2] < 128
    /\ \A i \in 3 .. Len(v) : Magnitude(v)[i] = 0

ToInt(v) ==
    LET n == Magnitude(v)[1] + 256 * Magnitude(v)[2]
    IN  IF IsNegative(v) THEN 0 - n ELSE n

\* The mathematical result of an arithmetic operator of Go on integers that
\* cannot overflow.
Native(operator, x, y) ==
    CASE operator = "+" -> x + y
      [] operator = "-" -> x - y
      [] operator = "*" -> x * y
      [] operator = "/" -> GoQuo(x, y)
      [] OTHER -> GoRem(x, y)

\* The signed order of int64: the unsigned order once the sign bit is flipped.
FlipSign(v) == [v EXCEPT ![Len(v)] = (@ + 128) % 256]
Before(a, b) == Below(FlipSign(a), FlipSign(b))

\* The native comparison of two int64.
Compare(operator, a, b) ==
    CASE operator = "<" -> Before(a, b)
      [] operator = ">" -> Before(b, a)
      [] operator = "<=" -> Before(a, b) \/ a = b
      [] operator = ">=" -> Before(b, a) \/ a = b
      [] operator = "==" -> a = b
      [] OTHER -> a # b

\* r is a remainder of the dividend a by b: zero or of a's sign, and of
\* magnitude below b's.
IsRemainder(r, a, b) ==
    /\ r # Zero64 => IsNegative(r) = IsNegative(a)
    /\ Below(Magnitude(r), Magnitude(b))

\* What defines v as the 64-bit result of a operator b: for + and - the
\* inverse operation gives the operands back, for * the order of the factors
\* does not matter, for / what v * b leaves of a is a remainder, for % v is a
\* remainder and b divides what it leaves of a.
IsResult(operator, a, b, v) ==
    CASE operator = "+" -> Sub64(v, b) = a /\ Sub64(v, a) = b
      [] operator = "-" -> Add64(v, b) = a
      [] operator = "*" -> v = Mul64(b, a)
      [] operator = "/" -> IsRemainder(Sub64(a, Mul64(v, b)), a, b)
      [] OTHER -> /\ IsRemainder(v, a, b)
                  /\ Mul64(Quo64(Sub64(a, v), b), b) = Sub64(a, v)

\* Results at and across the ends of the range, in two's complement bytes with
\* the decimal beside them: operand a, operand b (numbers of IntOperand),
\* operator c (number of Operators).
KnownAnswers ==
    { [a |-> 10, b |-> 2, c |-> 1, v |-> <<0, 0, 0, 0, 0, 0, 0, 128>>],   \* MaxInt64 + 1 = -9223372036854775808
      [a |-> 11, b |-> 3, c |-> 1, v |-> <<255, 255, 255, 255, 255, 255, 255, 127>>],   \* MinInt64 + -1 = 9223372036854775807
      [a |-> 12, b |-> 12, c |-> 1, v |-> <<0, 0, 0, 0, 0, 0, 0, 128>>],   \* 2^62 + 2^62 = -9223372036854775808
      [a |-> 11, b |-> 2, c |-> 2, v |-> <<255, 255, 255, 255, 255, 255, 255, 127>>],   \* MinInt64 - 1 = 9223372036854775807
      [a |-> 10, b |-> 3, c |-> 2, v |-> <<0, 0, 0, 0, 0, 0, 0, 128>>],   \* MaxInt64 - -1 = -9223372036854775808
      [a |-> 1, b |-> 11, c |-> 2, v |-> <<0, 0, 0, 0, 0, 0, 0, 128>>],   \* 0 - MinInt64 = -9223372036854775808
      [a |-> 10, b |-> 4, c |-> 3, v |-> <<254, 255, 255, 255, 255, 255, 255, 255>>],   \* MaxInt64 * 2 = -2
      [a |-> 11, b |-> 3, c |-> 3, v |-> <<0, 0, 0, 0, 0, 0, 0, 128>>],   \* MinInt64 * -1 = -9223372036854775808
      [a |-> 8, b |-> 8, c |-> 3, v |-> <<0, 0, 0, 0, 0, 0, 0, 0>>],   \* 2^32 * 2^32 = 0
      [a |-> 7, b |-> 7, c |-> 3, v |-> <<0, 0, 0, 0, 0, 0, 0, 64>>],   \* 2^31 * 2^31 = 4611686018427387904
      [a |-> 12, b |-> 4, c |-> 3, v |-> <<0, 0, 0, 0, 0, 0, 0, 128>>],   \* 2^62 * 2 = -9223372036854775808
      [a |-> 9, b |-> 9, c |-> 3, v |-> <<144, 194, 171, 8, 0, 0, 0, 128>>],   \* 3037000500 * 3037000500 = -9223372036709301616
      [a |-> 10, b |-> 10, c |-> 3, v |-> <<1, 0, 0, 0, 0, 0, 0, 0>>],   \* MaxInt64 * MaxInt64 = 1
      [a |-> 11, b |-> 3, c |-> 4, v |-> <<0, 0, 0, 0, 0, 0, 0, 128>>],   \* MinInt64 / -1 = -9223372036854775808
      [a |-> 11, b |-> 5, c |-> 4, v |-> <<183, 109, 219, 182, 109, 219, 182, 237>>],   \* MinInt64 / 7 = -1317624576693539401
      [a |-> 10, b |-> 6, c |-> 4, v |-> <<183, 109, 219, 182, 109, 219, 182, 237>>],   \* MaxInt64 / -7 = -1317624576693539401
      [a |-> 11, b |-> 8, c |-> 4, v |-> <<0, 0, 0, 128, 255, 255, 255, 255>>],   \* MinInt64 / 2^32 = -2147483648
      [a |-> 10, b |-> 9, c |-> 4, v |-> <<51, 243, 4, 181, 0, 0, 0, 0>>],   \* MaxInt64 / 3037000500 = 3037000499
      [a |-> 6, b |-> 10, c |-> 4, v |-> <<0, 0, 0, 0, 0, 0, 0, 0>>],   \* -7 / MaxInt64 = 0
      [a |-> 11, b |-> 3, c |-> 5, v |-> <<0, 0, 0, 0, 0, 0, 0, 0>>],   \* MinInt64 % -1 = 0
      [a |-> 11, b |-> 5, c |-> 5, v |-> <<255, 255, 255, 255, 255, 255, 255, 255>>],   \* MinInt64 % 7 = -1
      [a |-> 10, b |-> 6, c |-> 5, v |-> <<0, 0, 0, 0, 0, 0, 0, 0>>],   \* MaxInt64 % -7 = 0
      [a |-> 11, b |-> 10, c |-> 5, v |-> <<255, 255, 255, 255, 255, 255, 255, 255>>],   \* MinInt64 % MaxInt64 = -1
      [a |-> 10, b |-> 11, c |-> 5, v |-> <<255, 255, 255, 255, 255, 255, 255, 127>>],   \* MaxInt64 % MinInt64 = 9223372036854775807
      [a |-> 9, b |-> 8, c |-> 5, v |-> <<52, 243, 4, 181, 0, 0, 0, 0>>] }   \* 3037000500 % 2^32 = 3037000500

\* C15: an infix operator applied to Integers a and b, b not zero: +, -, *, /
\* and % yield the Integer of the 64-bit signed operation (wrapped around on
\* overflow, the quotient truncated toward zero, the remainder of the
\* dividend's sign), and <, >, <=, >=, == and != the singleton TRUE or FALSE
\* of the native comparison.
C15_IntegerArithmeticIsNative ==
    /\ (IntegersApplied /\ Newest.name \in {"+", "-", "*", "/", "%"})
       => /\ Type(Newest.val) = "INTEGER"
          /\ Len(Newest.val.Value) = Len(Zero64)
          /\ \A i \in 1 .. Len(Zero64) : Newest.val.Value[i] \in 0 .. 255
          /\ IsResult(Newest.name, LeftOperand.Value, RightOperand.Value, Newest.val.Value)
          /\ (IsSmall(LeftOperand.Value) /\ IsSmall(RightOperand.Value))
             => Newest.val.Value
                = Int64(Native(Newest.name, ToInt(LeftOperand.Value),
                               ToInt(RightOperand.Value)))
    /\ (IntegersApplied /\ Newest.name \in {"<", ">", "<=", ">=", "==", "!="})
       => /\ Newest.val
             = IF Compare(Newest.name, LeftOperand.Value, RightOperand.Value)
               THEN TRUE_ ELSE FALSE_
          /\ (IsSmall(LeftOperand.Value) /\ IsSmall(RightOperand.Value))
             => (Before(LeftOperand.Value, RightOperand.Value)
                 <=> ToInt(LeftOperand.Value) < ToInt(RightOperand.Value))
    /\ (IntegersApplied /\ scenario.name = "int" /\ Newest.Token = Tok(10, 30))
       => \A k \in KnownAnswers :
              (scenario.a = k.a /\ scenario.b = k.b /\ scenario.c = k.c)
              => Newest.val.Value = k.v

\* -7 / 2 has returned -3.
C15_Witness ==
    /\ IntegersApplied
    /\ scenario.name = "int" /\ scenario.a = 6 /\ scenario.b = 4 /\ scenario.c = 4
    /\ Newest.val = Integer(Int64(0 - 3))

\* 9223372036854775807 + 1 has returned the most negative Integer.
C15_WitnessWrap ==
    /\ IntegersApplied
    /\ scenario.name = "int" /\ scenario.a = 10 /\ scenario.b = 2 /\ scenario.c = 1
    /\ Newest.val = Integer(<<0, 0, 0, 0, 0, 0, 0, 128>>)

-----------------------------------------------------------------------------
(* Prefix ! *)

\* The newest event is the return of ! applied to an operand that is not an
\* Error.
BangApplied ==
    /\ Len(trace) > 0
    /\ Newest.k = "exit" /\ Newest.kind = "PrefixExpression" /\ Newest.name = "!"
    /\ Cardinality(ChildExits(Newest.self)) = 1
    /\ \A c \in ChildExits(Newest.self) : ~isError(trace[c].val)

BangOperand == trace[Nth(ChildExits(Newest.self), 1)].val

\* FALSE or NULL.
IsFalsy(obj) ==
    \/ Type(obj) = "NULL"
    \/ Type(obj) = "BOOLEAN" /\ ~obj.Value

\* C16: ! yields the singleton TRUE for the operands FALSE and NULL and the
\* singleton FALSE for every other operand, the Integer 0 and the empty String
\* included; that is TRUE exactly for the operands an if or a while takes as
\* false, so that an if on x takes its alternative exactly when !x is TRUE and
\* its consequence exactly when !!x is TRUE.
C16_BangFollowsTruthiness ==
    /\ BangApplied
       => /\ Newest.val = IF IsFalsy(BangOperand) THEN TRUE_ ELSE FALSE_
          /\ (Newest.val = TRUE_) <=> ~isTruthy(BangOperand)
          /\ isTruthy(Newest.val) <=> ~isTruthy(BangOperand)
    /\ (scenario.name = "bang" /\ Exited)
       => /\ Preached \in {<<"truthy">>, <<"falsy">>}
          /\ ResultIs(IF (Preached = <<"falsy">>) = (scenario.b = 1) THEN TRUE_ ELSE FALSE_)
          /\ scenario.a \in {4, 7, 13, 14} <=> Preached = <<"falsy">>

\* !0 has returned FALSE.
C16_Witness ==
    /\ BangApplied
    /\ Type(BangOperand) = "INTEGER" /\ BangOperand.Value = Zero64
    /\ Newest.val = FALSE_

\* !!null has left r FALSE and the if on null has taken its alternative.
C16_WitnessTwice ==
    /\ scenario.name = "bang" /\ scenario.a = 7 /\ scenario.b = 2
    /\ ResultIs(FALSE_)
    /\ Preached = <<"falsy">>

-----------------------------------------------------------------------------
(* if *)

\* The frame on top of the stack after the step.
TopAfter == stack'[Len(stack')]

\* The step enters the evaluation of node, as the one call the stepping frame
\* makes, and changes no environment itself.
Enters(node) ==
    /\ Len(stack') = Len(stack) + 1
    /\ TopAfter.node.kind = node.kind /\ TopAfter.node.Token = node.Token
    /\ TopAfter.env = Top.env
    /\ envs' = envs

\* The step returns val from the frame on top, and changes no environment.
Yields(val) ==
    /\ Len(stack') = Len(stack) - 1
    /\ ValEq(ret', val)
    /\ trace'[Len(trace')].k = "exit" /\ trace'[Len(trace')].self = Top.self
    /\ envs' = envs

\* A step of an if statement that is not cut short by the evaluation budget.
IfSteps == Running /\ Top.node.kind = "IfStatement" /\ abort' = ""

\* C17: an if statement evaluates its condition, once; then the consequence if
\* the condition's value is truthy (neither FALSE nor NULL), the alternative if
\* it is falsy and there is one, and yields what that branch yields; with a
\* falsy condition and no alternative it evaluates nothing more, yields NULL
\* and leaves every environment as the condition left it.  So an if that has
\* returned has evaluated its condition and at most one branch.
C17_IfEvaluatesOneBranch ==
    /\ [][IfSteps =>
            CASE Top.pc = 0 -> Enters(Top.node.Condition)
              [] Top.pc = 1 ->
                   IF ~IsFalsy(ret) THEN Enters(Top.node.Consequence)
                   ELSE IF Top.node.Alternative.kind # "none"
                   THEN Enters(Top.node.Alternative)
                   ELSE Yields(NULL)
              [] OTHER -> Yields(ret)]_vars
    /\ [](Len(trace) > 0 /\ Newest.k = "exit" /\ Newest.kind = "IfStatement"
          => /\ Cardinality(ChildExits(Newest.self)) \in {1, 2}
             /\ Cardinality({c \in ChildExits(Newest.self) :
                                 trace[c].kind # "BlockStatement"}) = 1
             /\ Cardinality(ChildExits(Newest.self)) = 1
                => /\ Newest.val = NULL
                   /\ IsFalsy(trace[Len(trace) - 1].val)
                   /\ trace[Len(trace) - 1].parent = Newest.self
             /\ Cardinality(ChildExits(Newest.self)) = 2
                => /\ ValEq(Newest.val, trace[Len(trace) - 1].val)
                   /\ trace[Len(trace) - 1].kind = "BlockStatement")
    /\ []((scenario.name = "if" /\ Exited)
          => /\ Preached = <<"after">>
             /\ ResultIs(Integer(Int64(
                    CASE scenario.b = 2 -> 0
                      [] scenario.a \notin {4, 7, 13, 14} -> 1
                      [] scenario.b = 1 -> 2
                      [] OTHER -> 0))))

\* An if on false with no alternative has returned NULL.
C17_Witness ==
    /\ scenario.name = "if" /\ scenario.a = 4 /\ scenario.b = 0
    /\ Len(trace) > 0
    /\ Newest.k = "exit" /\ Newest.kind = "IfStatement"
    /\ Newest.val = NULL

\* An if on "" with an alternative has run its consequence.
C17_WitnessTruthy ==
    /\ scenario.name = "if" /\ scenario.a = 16 /\ scenario.b = 1
    /\ ResultIs(Integer(Int64(1)))

-----------------------------------------------------------------------------
(* while *)

\* The returns of the body of loop number i, and of its condition.
BodyReturns(i) == {c \in ChildExits(i) : trace[c].kind = "BlockStatement"}
ConditionReturns(i) == ChildExits(i) \ BodyReturns(i)

\* The largest number of a set of numbers that is not empty.
Last(S) == CHOOSE x \in S : \A y \in S : y <= x

\* What a loop that stops on a falsy condition yields: the value of the last
\* evaluation of its body, NULL if there was none.
LoopValue(i) == IF BodyReturns(i) = {} THEN NULL ELSE trace[Last(BodyReturns(i))].val

\* A step of a while loop that is not cut short by the evaluation budget.
WhileSteps == Running /\ Top.node.kind = "WhileLoop" /\ abort' = ""

\* C18: a while loop evaluates its condition; on a falsy value it stops and
\* yields the value of the last evaluation of its body, NULL when the body was
\* never evaluated; on a truthy value it evaluates the body once and, unless
\* the body returned early, the condition again.  So a loop that has returned
\* has evaluated its body once for each truthy value of its condition, and a
\* loop whose condition is falsy from the start evaluates no body, changes no
\* binding and yields NULL.
C18_WhileRunsBodyPerTruthyCondition ==
    /\ [][WhileSteps =>
            CASE Top.pc = 0 -> Enters(Top.node.Condition)
              [] Top.pc = 1 ->
                   IF IsFalsy(ret) THEN Yields(LoopValue(Top.self))
                   ELSE Enters(Top.node.Body)
              [] OTHER ->
                   IF Type(ret) = "RETURN_VALUE" THEN Yields(ret)
                   ELSE Enters(Top.node.Condition)]_vars
    /\ [](Len(trace) > 0 /\ Newest.k = "exit" /\ Newest.kind = "WhileLoop"
          => /\ Cardinality(BodyReturns(Newest.self))
                = Cardinality({c \in ConditionReturns(Newest.self) : ~IsFalsy(trace[c].val)})
             /\ BodyReturns(Newest.self) = {}
                => /\ Newest.val = NULL
                   /\ Cardinality(ConditionReturns(Newest.self)) = 1)
    /\ []((scenario.name = "while" /\ Exited)
          => /\ Preached = <<"after">>
             /\ ResultIs(Integer(Int64(IF scenario.b = 0 THEN 10 * scenario.a ELSE 0)))
             /\ ValEq(Bound(EntryEnv, "i"),
                      Integer(Int64(IF scenario.b = 0 THEN scenario.a ELSE 0))))

\* A loop on false has returned NULL, r and i still 0.
C18_Witness ==
    /\ scenario.name = "while" /\ scenario.b = 1
    /\ Len(trace) > 0
    /\ Newest.k = "exit" /\ Newest.kind = "WhileLoop"
    /\ Newest.val = NULL
    /\ ValEq(Bound(Newest.env, "r"), Integer(Zero64))

\* A loop of three iterations has returned the value of its last body
\* evaluation, the String "last".
C18_WitnessLast ==
    /\ scenario.name = "while" /\ scenario.a = 3 /\ scenario.b = 0 /\ scenario.c = 1
    /\ Len(trace) > 0
    /\ Newest.k = "exit" /\ Newest.kind = "WhileLoop"
    /\ Cardinality(BodyReturns(Newest.self)) = 3
    /\ ValEq(Newest.val, String("last"))

-----------------------------------------------------------------------------
(* Modules *)

\* The newest event is the return of a member access whose object evaluated,
\* not to an Error.
MemberAccessed ==
    /\ Len(trace) > 0
    /\ Newest.k = "exit" /\ Newest.kind = "MemberAccessExpression"
    /\ Cardinality(ChildExits(Newest.self)) = 1
    /\ \A c \in ChildExits(Newest.self) : ~isError(trace[c].val)

AccessedObject == trace[Nth(ChildExits(Newest.self), 1)].val

\* C19: a member access on an object that is not an Error yields no Error: on
\* a Module the member bound under the name, NULL when the Module has none of
\* that name; on an Integer, Boolean, String, Null, Function or Builtin NULL.
C19_MemberAccessNeverFails ==
    /\ MemberAccessed
       => /\ ~isError(Newest.val)
          /\ IF Type(AccessedObject) = "MODULE"
             THEN IF Newest.name \in DOMAIN AccessedObject.Members
                  THEN SameObject(Newest.val, AccessedObject.Members[Newest.name])
                  ELSE Newest.val = NULL
             ELSE Newest.val = NULL
    /\ (scenario.name = "member" /\ MemberAccessed /\ Newest.Token = Tok(10, 30))
       => /\ Type(AccessedObject)
             = CASE scenario.a \in {1, 2, 15} -> "INTEGER"
                 [] scenario.a \in {3, 4, 12, 13} -> "BOOLEAN"
                 [] scenario.a \in {5, 6, 16} -> "STRING"
                 [] scenario.a \in {7, 14} -> "NULL"
                 [] scenario.a \in {8, 9} -> "FUNCTION"
                 [] scenario.a = 10 -> "BUILTIN"
                 [] OTHER -> "MODULE"
          /\ Type(Newest.val)
             = IF scenario.a = 11 /\ scenario.b \in {1, 2} THEN "BUILTIN" ELSE "NULL"
          /\ Type(Newest.val) = "BUILTIN" => Newest.val.Fn = MemberNames[scenario.b]

\* "beef".preach has returned NULL.
C19_Witness ==
    /\ MemberAccessed
    /\ Type(AccessedObject) = "STRING"
    /\ Newest.val = NULL

\* beefmath.input, on a Module without members, has returned NULL.
C19_WitnessNoMember ==
    /\ MemberAccessed
    /\ Type(AccessedObject) = "MODULE" /\ AccessedObject.Name = "beefmath"
    /\ Newest.val = NULL

\* The newest event is the return of a call whose function expression
\* evaluated to NULL.
CalledNull ==
    /\ Len(trace) > 0
    /\ Newest.k = "exit" /\ Newest.kind = "FunctionCall"
    /\ \E c \in ChildExits(Newest.self) : trace[c].self = Newest.self + 1
    /\ Type(Callee(Newest.self)) = "NULL"

\* C20: a module import yields and binds, under the imported name, a Module of
\* that name and never an Error: for io a Module whose members are exactly
\* preach, the builtin that prints, and input, the builtin that reads a line;
\* for any other name a Module without members.  A call of a member such a
\* Module does not have is a call of NULL, and it is that call which yields
\* the Error "not a function: NULL".
C20_ImportNeverFails ==
    /\ (Len(trace) > 0 /\ Newest.k = "exit" /\ Newest.kind = "WrangleStatement")
       => /\ Type(Newest.val) = "MODULE"
          /\ Newest.val.Name = Newest.name
          /\ DOMAIN Newest.val.Members
             = IF Newest.name = "io" THEN {"preach", "input"} ELSE {}
          /\ \A m \in DOMAIN Newest.val.Members :
                 /\ Type(Newest.val.Members[m]) = "BUILTIN"
                 /\ Newest.val.Members[m].Fn = m
          /\ Get(envs, Newest.env, Newest.name).ok
          /\ SameObject(Bound(Newest.env, Newest.name), Newest.val)
    /\ CalledNull
       => /\ isError(Newest.val)
          /\ Newest.val = newError(Newest.Token, "not a function: NULL")
    /\ (scenario.name = "module" /\ Exited)
       => /\ Preached = IF scenario.a \in {1, 4, 5} THEN <<>> ELSE <<"after">>
          /\ scenario.a \in {1, 4, 5}
             => \E j \in 1 .. Len(trace) :
                    /\ trace[j].k = "exit" /\ trace[j].kind = "FunctionCall"
                    /\ isError(trace[j].val)
                    /\ trace[j].val.Message = "not a function: NULL"
          /\ scenario.a = 2 => \A j \in 1 .. Len(trace) : ~isError(trace[j].val)
          /\ scenario.a \in {3, 6} => ResultIs(String("beef")) /\ stdin = <<>>

\* wrangle beefmath has returned a Module without members.
C20_Witness ==
    /\ Len(trace) > 0
    /\ Newest.k = "exit" /\ Newest.kind = "WrangleStatement"
    /\ Newest.name = "beefmath"
    /\ Type(Newest.val) = "MODULE"
    /\ DOMAIN Newest.val.Members = {}

\* beefmath.sqrt(4) has returned the Error of a call of NULL.
C20_WitnessCall ==
    /\ scenario.name = "module" /\ scenario.a = 1
    /\ CalledNull
    /\ isError(Newest.val)

-----------------------------------------------------------------------------
(* main(): parser errors *)

\* C21: when the parser's error list is not empty, main() evaluates nothing:
\* no call of Eval is made, no environment and no object is created, nothing
\* is read from standard input, and the only step it takes prints the heading
\* and then every message, in order, and exits with status 1.
C21_ParserErrorsStopTheRun ==
    Len(errors) > 0
    => /\ trace = <<>> /\ stack = <<>> /\ envs = <<>> /\ nobj = 0
       /\ stdin = <<"beef">>
       /\ abort = ""
       /\ pc \in {"parse", "exit"}
       /\ pc = "parse" => stdout = <<>> /\ exitStatus = 0 - 1
       /\ pc = "exit"
          => /\ exitStatus = 1
             /\ Len(stdout) = Len(errors) + 1
             /\ stdout[1] = [op |-> "Println", arg |-> String("Parser errors:")]
             /\ \A i \in 1 .. Len(errors) :
                    stdout[i + 1] = [op |-> "Printf", arg |-> String(errors[i])]

\* A program with two syntax errors has been refused with both reported.
C21_Witness ==
    /\ Len(errors) = 2
    /\ pc = "exit" /\ exitStatus = 1
    /\ Len(stdout) = 3

-----------------------------------------------------------------------------
(* main(): the entry point *)

\* The calls of Eval that main() itself has made.
MainCalls == {j \in 1 .. Len(trace) : trace[j].k = "enter" /\ trace[j].parent = 0}

\* What main() finds under the entry point's name once the top level has been
\* evaluated.
EntryPoint == Get(envs, GlobalEnv, "ChurchOfBeef")

\* The line main() prints when it cannot call the entry point.
EntryPointMessage ==
    IF EntryPoint.ok THEN "Error: ChurchOfBeef is not a function"
    ELSE "Error: no ChurchOfBeef() entry point function found"

\* C22: main() evaluates a program without syntax errors in a fresh
\* environment, then looks ChurchOfBeef up in it.  Bound to a Function, the
\* function's body is evaluated, once, in a new and empty environment whose
\* outer environment is the one the function captured.  Unbound, or bound to
\* anything else, main() evaluates nothing more, prints a message and exits
\* with status 1.
C22_EntryPointIsLookedUpAndRunOnce ==
    /\ [][(pc = "parse" /\ Len(errors) = 0)
          => /\ envs' = <<[store |-> EmptyStore, outer |-> 0]>>
             /\ Len(stack') = 1
             /\ stack'[1].node.kind = "Program" /\ stack'[1].env = GlobalEnv]_vars
    /\ [][(Evaluated /\ abort' = "")
          => IF EntryPoint.ok /\ Type(EntryPoint.val) = "FUNCTION"
             THEN /\ pc' = "entry"
                  /\ envs' = Append(envs, [store |-> EmptyStore,
                                            outer |-> EntryPoint.val.Env])
                  /\ Len(stack') = 1
                  /\ stack'[1].node.kind = "BlockStatement"
                  /\ stack'[1].node.Token = EntryPoint.val.Body.Token
                  /\ stack'[1].env = Len(envs) + 1
                  /\ stdout' = stdout
             ELSE /\ pc' = "exit" /\ exitStatus' = 1
                  /\ stdout' = Append(stdout, [op |-> "Println",
                                               arg |-> String(EntryPointMessage)])
                  /\ trace' = trace /\ envs' = envs /\ stack' = <<>>]_vars
    /\ []((Len(errors) = 0 /\ abort = "")
          => /\ Cardinality(MainCalls)
                = CASE pc = "parse" -> 0
                    [] pc = "eval" -> 1
                    [] pc = "entry" -> 2
                    [] OTHER -> IF exitStatus = 0 THEN 2 ELSE 1
             /\ \A j \in MainCalls : j # 1 => trace[j].kind = "BlockStatement")
    /\ []((scenario.name = "entry" /\ pc = "exit")
          => /\ exitStatus = IF scenario.a \in {1, 2} THEN 1 ELSE 0
             /\ Preached = CASE scenario.a \in {1, 2} ->
                                    <<"Error: ChurchOfBeef is not a function">>
                              [] scenario.a = 3 -> <<"body">>
                              [] scenario.a = 4 -> <<"captured">>
                              [] OTHER -> <<"body", "body">>)

\* main() has entered the body of a ChurchOfBeef that captured the environment
\* of a call, not the top level's.
C22_Witness ==
    /\ scenario.name = "entry" /\ scenario.a = 4
    /\ pc = "entry"
    /\ Len(stack) = 1
    /\ envs[stack[1].env].outer # GlobalEnv
    /\ envs[stack[1].env].store = EmptyStore

\* main() has refused a ChurchOfBeef bound to a Builtin.
C22_WitnessNotCallable ==
    /\ scenario.name = "entry" /\ scenario.a = 1
    /\ pc = "exit" /\ exitStatus = 1

-----------------------------------------------------------------------------
(* Integer operations that fail *)

\* The evaluation has been aborted by a panic inside an infix expression whose
\* operands are both Integers.
IntegerOperationPanicked ==
    /\ abort = "panic"
    /\ stack # <<>>
    /\ Top.node.kind = "InfixExpression" /\ Top.pc = 2
    /\ Type(Top.left) = "INTEGER" /\ Type(ret) = "INTEGER"

\* C23: an integer operation that fails returns an Error value and never
\* aborts the evaluation: no infix expression on two Integers panics, and a / 0
\* and a % 0 return an Error.
C23_IntegerFailureIsAnErrorValue ==
    /\ ~IntegerOperationPanicked
    /\ (InfixApplied /\ Newest.name \in {"/", "%"}
        /\ Type(LeftOperand) = "INTEGER" /\ Type(RightOperand) = "INTEGER"
        /\ RightOperand.Value = Zero64)
       => isError(Newest.val)

-----------------------------------------------------------------------------
(* Parameter binding *)

\* The step calls a user Function: it creates the call's environment, binds
\* the parameters and enters the body.
CallsFunction ==
    /\ Running /\ abort' = ""
    /\ Top.node.kind = "FunctionCall" /\ Top.pc \in {1, 2}
    /\ Len(stack') = Len(stack) + 1
    /\ TopAfter.node.kind = "BlockStatement"

\* The frames of the calls whose body is being evaluated.
ActiveCalls ==
    {k \in 1 .. Len(stack) - 1 : stack[k].node.kind = "FunctionCall" /\ stack[k].pc = 3}

\* The outer variable the shadow programs print at their end.
OuterVariable == IF scenario.a = 4 THEN "n" ELSE "x"

\* C24: binding the parameters of a call changes only the call's new
\* environment: the step that calls a Function leaves every environment that
\* existed as it was and binds each parameter to its argument in the new one;
\* every active call has its parameters bound in its own environment; so an
\* outer variable named like a parameter keeps its value, and a recursive call
\* does not change the parameter of the call that made it.
C24_ParameterBindingIsLocal ==
    /\ [][CallsFunction =>
            LET call == stack'[Len(stack)]
                fn == call.function
                fnEnv == Len(envs) + 1
            IN  /\ Len(envs') = fnEnv
                /\ TopAfter.env = fnEnv
                /\ \A e \in 1 .. Len(envs) : envs'[e] = envs[e]
                /\ \A i \in 1 .. Len(fn.Parameters) :
                       /\ fn.Parameters[i].Value \in DOMAIN envs'[fnEnv].store
                       /\ ValEq(envs'[fnEnv].store[fn.Parameters[i].Value], call.args[i])]_vars
    /\ [](\A k \in ActiveCalls :
              \A i \in 1 .. Len(stack[k].function.Parameters) :
                  stack[k].function.Parameters[i].Value \in DOMAIN envs[stack[k + 1].env].store)
    /\ []((Exited /\ scenario.name = "shadow")
          => /\ Preached = <<Int64(IF scenario.a = 4 THEN 9 ELSE 1)>>
             /\ ResultIs(Integer(Int64(IF scenario.a <= 3 THEN 2 ELSE scenario.b))))

-----------------------------------------------------------------------------
(* Bodies and environments *)

\* The environments that a lookup from env goes through.
RECURSIVE Chain(_)
Chain(env) == IF env = 0 THEN {} ELSE {env} \cup Chain(envs[env].outer)

\* A step of an if statement, a while loop or a block.
BodySteps ==
    Running /\ abort' = "" /\ Top.node.kind \in {"IfStatement", "WhileLoop", "BlockStatement"}

\* The body of the call on top of the stack has just returned.
BodyReturned == Running /\ Top.node.kind = "FunctionCall" /\ Top.pc = 3

\* The Error an unbound t gives where it is read.
NotFoundT(l, c) == newError(Tok(l, c), "identifier not found: t")

\* C25: the steps of an if statement, a while loop and a block create no
\* environment and change none, and whatever they evaluate, they evaluate in
\* their own environment; so a variable created in such a body is read with its
\* last value after the construct.  The environment of a function call is
\* reached neither from the caller's environment nor from the one the function
\* was declared in, so a variable created in it is not found there after the
\* call.
C25_BodiesShareTheEnclosingEnvironment ==
    /\ [][BodySteps =>
            /\ envs' = envs
            /\ Len(stack') > Len(stack) => TopAfter.env = Top.env]_vars
    /\ [](BodyReturned =>
            /\ Newest.k = "exit" /\ Newest.parent = Top.self
            /\ Newest.env \notin Chain(Top.env)
            /\ Newest.env \notin Chain(Top.function.Env))
    /\ []((Exited /\ scenario.name = "visible") =>
            CASE scenario.a = 1 -> Preached = <<Int64(5)>>
              [] scenario.a = 2 -> Preached = <<Int64(6)>>
              [] scenario.a = 3 ->
                   Preached = IF scenario.b = 0 THEN <<>> ELSE <<Int64(scenario.b - 1)>>
              [] scenario.a = 4 -> Preached = <<>> /\ ResultIs(Integer(Int64(5)))
              [] OTHER -> ResultIs(NotFoundT(7, 9)))

\* A variable created in the body of a loop that ran twice has been printed
\* after the loop, with the value the second iteration gave it.
C25_Witness ==
    /\ Exited
    /\ scenario.name = "visible" /\ scenario.a = 3 /\ scenario.b = 2
    /\ Preached = <<Int64(1)>>
    /\ "v" \in DOMAIN envs[EntryEnv].store

\* A variable created in the body of an if has been printed after the if.
C25_WitnessIf ==
    /\ Exited
    /\ scenario.name = "visible" /\ scenario.a = 1
    /\ Preached = <<Int64(5)>>

\* A variable created by a call is not found by a function declared where the
\* called one was.
C25_WitnessLocal ==
    /\ scenario.name = "visible" /\ scenario.a = 5
    /\ ResultIs(NotFoundT(7, 9))
    /\ \E e \in 1 .. Len(envs) : "t" \in DOMAIN envs[e].store

====
